---- MODULE Spec2Model ----
(***************************************************************************)
(* Persistent tiered memory of the M5Stack agent server: the SQLite store  *)
(* (memory_db.py), the memory manager (memory_manager.py), the Ollama      *)
(* wrapper (llm.py) and the request handlers that drive them (server.py).  *)
(*                                                                         *)
(* Texts are sequences of tokens (characters, or whole phrases), so that    *)
(* str.strip() and the string formatting of the source are computed.       *)
(* Cosine distances are integers in hundredths (0 .. 200).                 *)
(***************************************************************************)
EXTENDS Integers, Sequences, FiniteSets, TLC

VARIABLES
    conversation_log,   \* table conversation_log, in id order
    memory_summaries,   \* table memory_summaries, in id order
    memory_facts,       \* virtual table memory_facts (a set of rows)
    memory_base,        \* table memory_base (a set of rows)
    config,             \* the MemoryConfig the store and manager were built with
    chat_fn,            \* the callable MemoryManager was given as chat_fn
    call,               \* the store call the test harness made last
    tasks,              \* the process_exchange calls: position and locals of each
    retr,               \* the retrieve_context call: position, locals and result
    request,            \* the request the server is handling: position and locals
    messages            \* ConversationManager.messages, the rolling history

vars == <<conversation_log, memory_summaries, memory_facts, memory_base,
          config, chat_fn, call, tasks, retr, request, messages>>

server == <<request, messages>>

store_vars == <<conversation_log, memory_summaries, memory_facts, memory_base>>

wiring == <<config, chat_fn>>

----------------------------------------------------------------------------
(* Bounds of the model *)

MaxLog == 3
MaxSummaries == 2
MaxCalls == 2
MaxFacts == 3

----------------------------------------------------------------------------
(* Texts *)

EmptyText == <<>>

Whitespace == {" ", "\n"}

RECURSIVE lstrip(_)
lstrip(s) ==
    IF s /= <<>> /\ Head(s) \in Whitespace THEN lstrip(Tail(s)) ELSE s

RECURSIVE rstrip(_)
rstrip(s) ==
    IF s /= <<>> /\ s[Len(s)] \in Whitespace
    THEN rstrip(SubSeq(s, 1, Len(s) - 1))
    ELSE s

\* str.strip()
strip(s) == rstrip(lstrip(s))

\* str.splitlines(), on "\n"
RECURSIVE splitlines(_)
splitlines(s) ==
    IF s = <<>> THEN <<>>
    ELSE IF \E i \in DOMAIN s : s[i] = "\n"
    THEN LET i == CHOOSE i \in DOMAIN s :
                      s[i] = "\n" /\ \A j \in 1 .. i - 1 : s[j] /= "\n"
         IN <<SubSeq(s, 1, i - 1)>> \o splitlines(SubSeq(s, i + 1, Len(s)))
    ELSE <<s>>

\* sep.join(parts)
RECURSIVE join(_, _)
join(sep, parts) ==
    IF parts = <<>> THEN <<>>
    ELSE IF Len(parts) = 1 THEN parts[1]
    ELSE parts[1] \o sep \o join(sep, Tail(parts))

Roles == {"user", "assistant"}

\* the contents the harness appends, stores and distils
HarnessTexts == {<<"a">>}
BaseTexts == {<<>>, <<"B">>}

----------------------------------------------------------------------------
(* memory_config.py *)

MemoryConfig ==
    [ short_term_threshold |-> 30, short_term_keep |-> 10,
      long_term_threshold |-> 20, long_term_keep |-> 10,
      retrieval_top_k |-> 5, retrieval_min_similarity |-> 30,
      duplicate_distance_threshold |-> 15 ]

----------------------------------------------------------------------------
(* memory_db.py: the store's operations, as functions of the tables *)

\* INTEGER PRIMARY KEY AUTOINCREMENT on a table no row is ever deleted from
next_rowid(table) ==
    IF table = <<>> THEN 1 ELSE table[Len(table)].id + 1

\* _create_tables on a fresh database
create_tables_base == {[id |-> 1, content |-> EmptyText]}

create_tables_replace(base) == {[id |-> 1, content |-> EmptyText]}

\* _create_tables on any database: INSERT OR IGNORE INTO memory_base (id, ...)
\* VALUES (1, '', ...); the CREATE ... IF NOT EXISTS statements leave a table
\* that exists as it is
create_tables(base) ==
    IF \E r \in base : r.id = 1
    THEN base
    ELSE base \cup {[id |-> 1, content |-> EmptyText]}

append_message(log, role, content) ==
    Append(log, [id |-> next_rowid(log), role |-> role, content |-> content,
                 summarized |-> FALSE])

IsUnsummarized(m) == ~m.summarized

count_unsummarized(log) ==
    Cardinality({i \in DOMAIN log : ~log[i].summarized})

get_unsummarized_messages_all(log) == log

get_unsummarized_messages(log) == SelectSeq(log, IsUnsummarized)

mark_summarized_eq(log, up_to_id) ==
    [i \in DOMAIN log |->
        IF log[i].id = up_to_id
        THEN [log[i] EXCEPT !.summarized = TRUE]
        ELSE log[i]]

mark_summarized_assign(log, up_to_id) ==
    [i \in DOMAIN log |-> [log[i] EXCEPT !.summarized = (log[i].id <= up_to_id)]]

mark_summarized(log, up_to_id) ==
    [i \in DOMAIN log |->
        IF log[i].id <= up_to_id
        THEN [log[i] EXCEPT !.summarized = TRUE]
        ELSE log[i]]

insert_summary(summaries, content, source_from_id, source_to_id) ==
    Append(summaries,
           [id |-> next_rowid(summaries), content |-> content,
            source_from_id |-> source_from_id, source_to_id |-> source_to_id,
            incorporated |-> FALSE])

IsUnincorporated(s) == ~s.incorporated

count_unincorporated_summaries(summaries) ==
    Cardinality({i \in DOMAIN summaries : ~summaries[i].incorporated})

get_unincorporated_summaries(summaries) == SelectSeq(summaries, IsUnincorporated)

mark_incorporated_eq(summaries, up_to_id) ==
    [i \in DOMAIN summaries |->
        IF summaries[i].id = up_to_id
        THEN [summaries[i] EXCEPT !.incorporated = TRUE]
        ELSE summaries[i]]

mark_incorporated(summaries, up_to_id) ==
    [i \in DOMAIN summaries |->
        IF summaries[i].id <= up_to_id
        THEN [summaries[i] EXCEPT !.incorporated = TRUE]
        ELSE summaries[i]]

get_base_memory(base) ==
    IF \E r \in base : r.id = 1
    THEN (CHOOSE r \in base : r.id = 1).content
    ELSE EmptyText

set_base_memory_insert(base, content) ==
    base \cup {[id |-> Cardinality(base) + 1, content |-> content]}

set_base_memory(base, content) ==
    {IF r.id = 1 THEN [r EXCEPT !.content = content] ELSE r : r \in base}

\* The embedding space of sqlite-vec, abstracted to points on a line; the
\* cosine distance of two points, in hundredths, is read off their gap.
DistanceTable == <<0, 5, 15, 70, 100>>

Gap(a, b) == IF a >= b THEN a - b ELSE b - a

Distance(a, b) == DistanceTable[Gap(a, b) + 1]

\* rowid of a new row of the vec0 table (INTEGER PRIMARY KEY, no AUTOINCREMENT)
next_fact_id(facts) ==
    IF facts = {} THEN 1
    ELSE (CHOOSE r \in facts : \A o \in facts : o.id <= r.id).id + 1

insert_fact(facts, content, embedding, source, fact_type) ==
    facts \cup {[id |-> next_fact_id(facts), content |-> content,
                 embedding |-> embedding, source |-> source,
                 fact_type |-> fact_type]}

delete_fact_none(facts, fact_id) == facts

delete_fact_all(facts, fact_id) == {}

delete_fact(facts, fact_id) == {r \in facts : r.id /= fact_id}

FactRow(r, query_embedding) ==
    [id |-> r.id, distance |-> Distance(r.embedding, query_embedding),
     content |-> r.content, source |-> r.source, fact_type |-> r.fact_type]

\* the rows of facts ascending by distance to the query (ties by id)
RECURSIVE knn(_, _)
knn(facts, query_embedding) ==
    IF facts = {} THEN <<>>
    ELSE LET d(r) == Distance(r.embedding, query_embedding)
             nearest == CHOOSE r \in facts :
                            \A o \in facts :
                                d(r) < d(o) \/ (d(r) = d(o) /\ r.id <= o.id)
         IN <<FactRow(nearest, query_embedding)>>
                \o knn(facts \ {nearest}, query_embedding)

search_facts(facts, query_embedding, k) ==
    LET all == knn(facts, query_embedding)
    IN SubSeq(all, 1, IF Len(all) < k THEN Len(all) ELSE k)

----------------------------------------------------------------------------
(* llm.py: the Ollama wrapper, and the callables the manager is built with *)

\* an external call's outcome: it returned a text, or it raised
Returned(value) == [raised |-> FALSE, value |-> value]
Raised == [raised |-> TRUE, value |-> <<>>]

Apology == <<"Sorry, I'm having trouble thinking right now.">>

\* llm.chat: ollama.chat's reply, stripped; the apology when ollama.chat raises
llm_chat(outcome) ==
    IF outcome.raised THEN Returned(Apology) ELSE Returned(strip(outcome.value))

\* chat_fn(messages): llm.chat as wired by server.lifespan, or another callable
\* that lets the model's failure through
call_chat_fn(fn, outcome) ==
    IF fn = "llm.chat" THEN llm_chat(outcome) ELSE outcome

\* llm.embed: the embedding model maps each text to one point
EmbedTable ==
    [text \in {<<"f">>, <<"g">>, <<"h">>, <<"q">>, <<"r">>,
               <<"user information and preferences">>} |->
        CASE text = <<"f">> -> 0
          [] text = <<"g">> -> 1
          [] text = <<"h">> -> 2
          [] text = <<"q">> -> 3
          [] text = <<"r">> -> 4
          [] OTHER -> 2]

llm_embed(text) == IF text \in DOMAIN EmbedTable THEN EmbedTable[text] ELSE 0

----------------------------------------------------------------------------
(* memory_manager.py: the pure parts *)

\* seq[:stop] of Python, for any integer stop
slice_to(seq, stop) ==
    LET s == IF stop < 0 THEN stop + Len(seq) ELSE stop
        e == IF s < 0 THEN 0 ELSE IF s > Len(seq) THEN Len(seq) ELSE s
    IN SubSeq(seq, 1, e)

\* json.loads on the tokens the model can answer with
FactItem(text, type) == [is_dict |-> TRUE, fact |-> text, type |-> type]
NotADict == [is_dict |-> FALSE, fact |-> <<>>, type |-> ""]

JsonTable ==
    [token \in {"[]", "[f]", "[g,h]", "[h]", "[_,f]", "[1]", "{}"} |->
        CASE token = "[]" -> [is_list |-> TRUE, items |-> <<>>]
          [] token = "[f]" ->
                [is_list |-> TRUE, items |-> <<FactItem(<<"f">>, "personal")>>]
          [] token = "[g,h]" ->
                [is_list |-> TRUE,
                 items |-> <<FactItem(<<"g">>, "preference"),
                             FactItem(<<" ", "h">>, "event")>>]
          [] token = "[h]" ->
                [is_list |-> TRUE, items |-> <<FactItem(<<"h">>, "event")>>]
          [] token = "[_,f]" ->
                [is_list |-> TRUE,
                 items |-> <<FactItem(<<" ">>, "knowledge"),
                             FactItem(<<"f">>, "personal")>>]
          [] token = "[1]" -> [is_list |-> TRUE, items |-> <<NotADict>>]
          [] OTHER -> [is_list |-> FALSE, items |-> <<>>]]

\* json.loads(text): one JSON value, whitespace around it allowed
json_decodes(text) == Len(strip(text)) = 1 /\ strip(text)[1] \in DOMAIN JsonTable

json_loads(text) == JsonTable[strip(text)[1]]

\* l.startswith of the markdown fence (three backticks), here the token "<fence>"
line_is_fence(l) == l /= <<>> /\ l[1] = "<fence>"

not_fence(l) == ~line_is_fence(l)

\* json.loads raises RecursionError, which is no JSONDecodeError, on a text nested
\* deeper than the interpreter's recursion limit; here the token "[[[..."
json_recursion_error(text) == strip(text) = <<"[[[...">>

\* _parse_facts_json: the text handed to json.loads
facts_json_text(raw) ==
    LET stripped == strip(raw)
    IN IF line_is_fence(stripped)
       THEN join(<<"\n">>, SelectSeq(splitlines(stripped), not_fence))
       ELSE stripped

parse_facts_json_raises_any(raw) == ~json_decodes(facts_json_text(raw))

\* _parse_facts_json raises: except json.JSONDecodeError lets any other error through
parse_facts_json_raises(raw) == json_recursion_error(facts_json_text(raw))

\* MemoryManager._parse_facts_json
parse_facts_json(raw) ==
    LET text == facts_json_text(raw)
    IN IF json_decodes(text) /\ json_loads(text).is_list
       THEN json_loads(text).items
       ELSE <<>>

\* "- " + f for each fact
RECURSIVE bullets(_)
bullets(facts) ==
    IF facts = <<>> THEN <<>>
    ELSE <<(<<"-", " ">> \o Head(facts))>> \o bullets(Tail(facts))

\* MemoryManager._format_context
format_context_no_guard(base_memory, facts) ==
    join(<<"\n", "\n">>,
         <<(<<"[Long-term memory]", "\n">> \o base_memory),
           (<<"[Relevant memories]", "\n">> \o join(<<"\n">>, bullets(facts)))>>)

format_context(base_memory, facts) ==
    LET part1 == IF base_memory /= <<>>
                 THEN <<(<<"[Long-term memory]", "\n">> \o base_memory)>>
                 ELSE <<>>
        part2 == IF facts /= <<>>
                 THEN <<(<<"[Relevant memories]", "\n">>
                            \o join(<<"\n">>, bullets(facts)))>>
                 ELSE <<>>
    IN join(<<"\n", "\n">>, part1 \o part2)

\* the facts retrieve_context keeps: distance <= 1 - retrieval_min_similarity
RECURSIVE keep_relevant_strict(_, _)
keep_relevant_strict(results, max_distance) ==
    IF results = <<>> THEN <<>>
    ELSE (IF Head(results).distance < max_distance
          THEN <<Head(results).content>> ELSE <<>>)
         \o keep_relevant_strict(Tail(results), max_distance)

RECURSIVE keep_relevant(_, _)
keep_relevant(results, max_distance) ==
    IF results = <<>> THEN <<>>
    ELSE (IF Head(results).distance <= max_distance
          THEN <<Head(results).content>> ELSE <<>>)
         \o keep_relevant(Tail(results), max_distance)

----------------------------------------------------------------------------
(* memory_manager.py: process_exchange, one step per external or store call *)

TaskIds == 1 .. MaxCalls

NoCall == [op |-> "none", arg |-> 0, prev_op |-> "none", prev_arg |-> 0]

\* the harness calls op(arg) after call.op(call.arg)
Then(op, arg) == [op |-> op, arg |-> arg, prev_op |-> call.op, prev_arg |-> call.arg]

\* what the model answers when asked to summarise, and to distil
SummaryOutputs == {<<"S">>, <<" ", "S", "\n">>}
DistillOutputs == {<<"B">>, <<"C", " ">>}

Outcomes(texts) == {Returned(x) : x \in texts} \cup {Raised}

IdleTask ==
    [pc |-> "idle", errors |-> {}, chat_error |-> FALSE,
     items |-> <<>>, fact_text |-> <<>>, fact_type |-> "", vec |-> 0,
     existing |-> <<>>,
     msgs |-> <<>>, to_summarize |-> <<>>, summary |-> <<>>,
     summaries |-> <<>>, to_incorporate |-> <<>>, current_base |-> <<>>,
     recent_facts_text |-> <<>>, new_base |-> <<>>]

ExtractPcs == {"ef_chat", "ef_embed", "ef_search", "ef_delete", "ef_insert"}
ShortPcs == {"st_count", "st_get", "st_chat", "st_insert", "st_mark"}
ProbePcs == {"lt_embed", "lt_search"}
LongPcs == {"lt_count", "lt_get", "lt_base", "lt_chat", "lt_set", "lt_mark"}
               \cup ProbePcs
ActivePcs == ExtractPcs \cup ShortPcs \cup LongPcs

\* the calls of a step that can raise by themselves: store calls and llm.embed
RaisingPcs == ActivePcs \ {"ef_chat", "st_chat", "lt_chat"}

\* a try block of process_exchange is entered with fresh locals
Section(task, pc) == [IdleTask EXCEPT !.pc = pc, !.errors = task.errors]

\* where control goes when the call at task.pc raises
except_handler_no_long_try(task) ==
    IF task.pc \in ExtractPcs
    THEN [Section(task, "st_count") EXCEPT !.errors = task.errors \cup {"ef"}]
    ELSE IF task.pc \in ShortPcs
    THEN [Section(task, "lt_count") EXCEPT !.errors = task.errors \cup {"st"}]
    ELSE IF task.pc \in ProbePcs
    THEN [task EXCEPT !.pc = "lt_chat", !.vec = 0, !.recent_facts_text = <<>>]
    ELSE Section(task, "raised")

except_handler_no_probe_try(task) ==
    IF task.pc \in ExtractPcs
    THEN [Section(task, "st_count") EXCEPT !.errors = task.errors \cup {"ef"}]
    ELSE IF task.pc \in ShortPcs
    THEN [Section(task, "lt_count") EXCEPT !.errors = task.errors \cup {"st"}]
    ELSE [Section(task, "done") EXCEPT !.errors = task.errors \cup {"lt"}]

except_handler_one_try(task) ==
    IF task.pc \in ProbePcs
    THEN [task EXCEPT !.pc = "lt_chat", !.vec = 0, !.recent_facts_text = <<>>]
    ELSE [Section(task, "done") EXCEPT !.errors = task.errors \cup {"ef"}]

except_handler_continue(task) ==
    IF task.pc \in ExtractPcs
    THEN IF Len(task.items) > 1
         THEN [task EXCEPT !.pc = "ef_embed", !.items = Tail(task.items),
                           !.fact_text = strip(Head(Tail(task.items)).fact),
                           !.fact_type = Head(Tail(task.items)).type,
                           !.vec = 0, !.existing = <<>>,
                           !.errors = task.errors \cup {"ef"}]
         ELSE [Section(task, "st_count") EXCEPT !.errors = task.errors \cup {"ef"}]
    ELSE IF task.pc \in ShortPcs
    THEN [Section(task, "lt_count") EXCEPT !.errors = task.errors \cup {"st"}]
    ELSE IF task.pc \in ProbePcs
    THEN [task EXCEPT !.pc = "lt_chat", !.vec = 0, !.recent_facts_text = <<>>]
    ELSE [Section(task, "done") EXCEPT !.errors = task.errors \cup {"lt"}]

except_handler(task) ==
    IF task.pc \in ExtractPcs
    THEN [Section(task, "st_count") EXCEPT !.errors = task.errors \cup {"ef"}]
    ELSE IF task.pc \in ShortPcs
    THEN [Section(task, "lt_count") EXCEPT !.errors = task.errors \cup {"st"}]
    ELSE IF task.pc \in ProbePcs
    THEN [task EXCEPT !.pc = "lt_chat", !.vec = 0, !.recent_facts_text = <<>>]
    ELSE [Section(task, "done") EXCEPT !.errors = task.errors \cup {"lt"}]

\* the for loop of _extract_facts from its head, with `items` still to handle
RECURSIVE extract_loop(_, _)
extract_loop(task, items) ==
    IF items = <<>> THEN Section(task, "st_count")
    ELSE IF ~Head(items).is_dict THEN except_handler(task)
    ELSE IF strip(Head(items).fact) = <<>> THEN extract_loop(task, Tail(items))
    ELSE [task EXCEPT !.pc = "ef_embed", !.items = items,
                      !.fact_text = strip(Head(items).fact),
                      !.fact_type = Head(items).type,
                      !.vec = 0, !.existing = <<>>]

SetTask(t, task) == tasks' = [tasks EXCEPT ![t] = task]

\* a store call or llm.embed raises, at one of the calls that fail in these runs
TaskRaise(t, outputs) ==
    /\ tasks[t].pc \in RaisingPcs \cap outputs.raising
    /\ SetTask(t, except_handler(tasks[t]))
    /\ UNCHANGED <<store_vars, wiring, server, call, retr>>

\* _extract_facts: raw = chat_fn(messages), facts = _parse_facts_json(raw)
EfChat(t, outputs) ==
    /\ tasks[t].pc = "ef_chat"
    /\ \E outcome \in Outcomes(outputs.extraction) :
          LET r == call_chat_fn(chat_fn, outcome)
          IN SetTask(t, IF r.raised \/ parse_facts_json_raises(r.value)
                        THEN except_handler(tasks[t])
                        ELSE extract_loop(tasks[t], parse_facts_json(r.value)))
    /\ UNCHANGED <<store_vars, wiring, server, call, retr>>

\* vec = self.embed_fn(fact_text)
EfEmbed(t) ==
    /\ tasks[t].pc = "ef_embed"
    /\ SetTask(t, [tasks[t] EXCEPT !.pc = "ef_search",
                                   !.vec = llm_embed(tasks[t].fact_text)])
    /\ UNCHANGED <<store_vars, wiring, server, call, retr>>

\* if existing and existing[0].distance < duplicate_distance_threshold
is_duplicate_le(existing, threshold) ==
    existing /= <<>> /\ existing[1].distance <= threshold

is_duplicate(existing, threshold) ==
    existing /= <<>> /\ existing[1].distance < threshold

\* _deduplicate_and_insert: existing = self.db.search_facts(vec, k=1)
EfSearch(t) ==
    /\ tasks[t].pc = "ef_search"
    /\ LET existing == search_facts(memory_facts, tasks[t].vec, 1)
           duplicate == is_duplicate(existing, config.duplicate_distance_threshold)
       IN SetTask(t, [tasks[t] EXCEPT
                         !.pc = IF duplicate THEN "ef_delete" ELSE "ef_insert",
                         !.existing = existing])
    /\ UNCHANGED <<store_vars, wiring, server, call, retr>>

\* self.db.delete_fact(existing[0].id)
EfDelete(t) ==
    /\ tasks[t].pc = "ef_delete"
    /\ memory_facts' = delete_fact(memory_facts, tasks[t].existing[1].id)
    /\ SetTask(t, [tasks[t] EXCEPT !.pc = "ef_insert"])
    /\ UNCHANGED <<conversation_log, memory_summaries, memory_base, wiring, server, call, retr>>

\* self.db.insert_fact(...), then the next item of the loop
EfInsert(t) ==
    /\ tasks[t].pc = "ef_insert"
    /\ memory_facts' = insert_fact(memory_facts, tasks[t].fact_text, tasks[t].vec,
                                   "extraction", tasks[t].fact_type)
    /\ SetTask(t, extract_loop(tasks[t], Tail(tasks[t].items)))
    /\ UNCHANGED <<conversation_log, memory_summaries, memory_base, wiring, server, call, retr>>

\* _check_short_term_cascade: the trigger check
StCount_le(t) ==
    /\ tasks[t].pc = "st_count"
    /\ SetTask(t, IF count_unsummarized(conversation_log) <= config.short_term_threshold
                  THEN Section(tasks[t], "lt_count")
                  ELSE [tasks[t] EXCEPT !.pc = "st_get"])
    /\ UNCHANGED <<store_vars, wiring, server, call, retr>>

StCount(t) ==
    /\ tasks[t].pc = "st_count"
    /\ SetTask(t, IF count_unsummarized(conversation_log) < config.short_term_threshold
                  THEN Section(tasks[t], "lt_count")
                  ELSE [tasks[t] EXCEPT !.pc = "st_get"])
    /\ UNCHANGED <<store_vars, wiring, server, call, retr>>

\* msgs = get_unsummarized_messages(); to_summarize = msgs[: len(msgs) - keep]
StGet(t) ==
    /\ tasks[t].pc = "st_get"
    /\ LET msgs == get_unsummarized_messages(conversation_log)
           to_summarize == slice_to(msgs, Len(msgs) - config.short_term_keep)
       IN SetTask(t, IF to_summarize = <<>>
                     THEN Section(tasks[t], "lt_count")
                     ELSE [tasks[t] EXCEPT !.pc = "st_chat", !.msgs = msgs,
                                           !.to_summarize = to_summarize])
    /\ UNCHANGED <<store_vars, wiring, server, call, retr>>

\* summary = self.chat_fn(summary_messages).strip()
StChat(t, outputs) ==
    /\ tasks[t].pc = "st_chat"
    /\ \E outcome \in Outcomes(outputs.summary) :
          LET r == call_chat_fn(chat_fn, outcome)
          IN SetTask(t, IF r.raised THEN except_handler(tasks[t])
                        ELSE [tasks[t] EXCEPT !.pc = "st_insert",
                                              !.summary = strip(r.value),
                                              !.chat_error = outcome.raised])
    /\ UNCHANGED <<store_vars, wiring, server, call, retr>>

\* self.db.insert_summary(summary, to_summarize[0].id, to_summarize[-1].id)
StInsert(t) ==
    /\ tasks[t].pc = "st_insert"
    /\ LET c == tasks[t].to_summarize
       IN memory_summaries' =
              insert_summary(memory_summaries, tasks[t].summary, c[1].id, c[Len(c)].id)
    /\ SetTask(t, [tasks[t] EXCEPT !.pc = "st_mark"])
    /\ UNCHANGED <<conversation_log, memory_facts, memory_base, wiring, server, call, retr>>

\* self.db.mark_summarized(to_summarize[-1].id)
StMark(t) ==
    /\ tasks[t].pc = "st_mark"
    /\ LET c == tasks[t].to_summarize
       IN conversation_log' = mark_summarized(conversation_log, c[Len(c)].id)
    /\ SetTask(t, Section(tasks[t], "lt_count"))
    /\ UNCHANGED <<memory_summaries, memory_facts, memory_base, wiring, server, call, retr>>

\* _check_long_term_cascade: the trigger check
LtCount_gt(t) ==
    /\ tasks[t].pc = "lt_count"
    /\ SetTask(t, IF count_unincorporated_summaries(memory_summaries)
                        <= config.long_term_threshold
                  THEN Section(tasks[t], "done")
                  ELSE [tasks[t] EXCEPT !.pc = "lt_get"])
    /\ UNCHANGED <<store_vars, wiring, server, call, retr>>

LtCount(t) ==
    /\ tasks[t].pc = "lt_count"
    /\ SetTask(t, IF count_unincorporated_summaries(memory_summaries)
                        < config.long_term_threshold
                  THEN Section(tasks[t], "done")
                  ELSE [tasks[t] EXCEPT !.pc = "lt_get"])
    /\ UNCHANGED <<store_vars, wiring, server, call, retr>>

\* summaries = get_unincorporated_summaries(); to_incorporate = summaries[: len - keep]
LtGet(t) ==
    /\ tasks[t].pc = "lt_get"
    /\ LET summaries == get_unincorporated_summaries(memory_summaries)
           to_incorporate == slice_to(summaries, Len(summaries) - config.long_term_keep)
       IN SetTask(t, IF to_incorporate = <<>>
                     THEN Section(tasks[t], "done")
                     ELSE [tasks[t] EXCEPT !.pc = "lt_base", !.summaries = summaries,
                                           !.to_incorporate = to_incorporate])
    /\ UNCHANGED <<store_vars, wiring, server, call, retr>>

\* current_base = self.db.get_base_memory()
LtBase(t) ==
    /\ tasks[t].pc = "lt_base"
    /\ SetTask(t, [tasks[t] EXCEPT !.pc = "lt_embed",
                                   !.current_base = get_base_memory(memory_base)])
    /\ UNCHANGED <<store_vars, wiring, server, call, retr>>

\* vec = self.embed_fn("user information and preferences")
LtEmbed(t) ==
    /\ tasks[t].pc = "lt_embed"
    /\ SetTask(t, [tasks[t] EXCEPT
                      !.pc = "lt_search",
                      !.vec = llm_embed(<<"user information and preferences">>)])
    /\ UNCHANGED <<store_vars, wiring, server, call, retr>>

RECURSIVE contents(_)
contents(rows) ==
    IF rows = <<>> THEN <<>> ELSE <<Head(rows).content>> \o contents(Tail(rows))

\* facts = self.db.search_facts(vec, k=10), formatted as a bullet list
ProbeK == 10

LtSearch(t) ==
    /\ tasks[t].pc = "lt_search"
    /\ LET facts == search_facts(memory_facts, tasks[t].vec, ProbeK)
       IN SetTask(t, [tasks[t] EXCEPT
                         !.pc = "lt_chat", !.vec = 0,
                         !.recent_facts_text =
                             IF facts /= <<>>
                             THEN join(<<"\n">>, bullets(contents(facts)))
                             ELSE <<>>])
    /\ UNCHANGED <<store_vars, wiring, server, call, retr>>

\* new_base = self.chat_fn(distill_messages).strip()
LtChat(t, outputs) ==
    /\ tasks[t].pc = "lt_chat"
    /\ \E outcome \in Outcomes(outputs.distill) :
          LET r == call_chat_fn(chat_fn, outcome)
          IN SetTask(t, IF r.raised THEN except_handler(tasks[t])
                        ELSE [tasks[t] EXCEPT !.pc = "lt_set",
                                              !.new_base = strip(r.value),
                                              !.chat_error = outcome.raised])
    /\ UNCHANGED <<store_vars, wiring, server, call, retr>>

\* self.db.set_base_memory(new_base)
LtSet(t) ==
    /\ tasks[t].pc = "lt_set"
    /\ memory_base' = set_base_memory(memory_base, tasks[t].new_base)
    /\ SetTask(t, [tasks[t] EXCEPT !.pc = "lt_mark"])
    /\ UNCHANGED <<conversation_log, memory_summaries, memory_facts, wiring, server, call, retr>>

\* self.db.mark_incorporated(to_incorporate[-1].id); process_exchange returns
LtMark(t) ==
    /\ tasks[t].pc = "lt_mark"
    /\ LET c == tasks[t].to_incorporate
       IN memory_summaries' = mark_incorporated(memory_summaries, c[Len(c)].id)
    /\ SetTask(t, Section(tasks[t], "done"))
    /\ UNCHANGED <<conversation_log, memory_facts, memory_base, wiring, server, call, retr>>

\* one step of call t, the model answering from the texts of `outputs` and the
\* store and the embedder failing at the calls of outputs.raising
TaskStep(t, outputs) ==
    \/ TaskRaise(t, outputs)
    \/ EfChat(t, outputs) \/ EfEmbed(t) \/ EfSearch(t) \/ EfDelete(t) \/ EfInsert(t)
    \/ StCount(t) \/ StGet(t) \/ StChat(t, outputs) \/ StInsert(t) \/ StMark(t)
    \/ LtCount(t) \/ LtGet(t) \/ LtBase(t) \/ LtEmbed(t) \/ LtSearch(t)
    \/ LtChat(t, outputs) \/ LtSet(t) \/ LtMark(t)

----------------------------------------------------------------------------
(* memory_manager.py: retrieve_context, one step per external or store call *)

IdleRetrieval ==
    [pc |-> "idle", query |-> <<>>, base_memory |-> <<>>, query_vec |-> 0,
     warned |-> FALSE, relevant_facts |-> <<>>, formatted |-> <<>>]

\* return MemoryContext(base_memory, relevant_facts, formatted)
MemoryContext(r, warned, relevant_facts) ==
    [pc |-> "returned", query |-> r.query, base_memory |-> r.base_memory,
     query_vec |-> 0, warned |-> warned, relevant_facts |-> relevant_facts,
     formatted |-> format_context(r.base_memory, relevant_facts)]

\* where control goes when the call at r.pc raises
retrieve_except_no_try(r) == [IdleRetrieval EXCEPT !.pc = "raised", !.query = r.query]

retrieve_except(r) ==
    IF r.pc \in {"rc_embed", "rc_search"}
    THEN MemoryContext(r, TRUE, <<>>)
    ELSE [IdleRetrieval EXCEPT !.pc = "raised", !.query = r.query]

\* retrieve_context(query) is called
StartRetrieve(query) ==
    /\ retr.pc \in {"idle", "returned", "raised"}
    /\ retr' = [IdleRetrieval EXCEPT !.pc = "rc_base", !.query = query]
    /\ UNCHANGED <<store_vars, wiring, server, call, tasks>>

\* a store call or llm.embed raises
RcRaise ==
    /\ retr.pc \in {"rc_base", "rc_embed", "rc_search"}
    /\ retr' = retrieve_except(retr)
    /\ UNCHANGED <<store_vars, wiring, server, call, tasks>>

\* base_memory = self.db.get_base_memory()
RcBase ==
    /\ retr.pc = "rc_base"
    /\ retr' = [retr EXCEPT !.pc = "rc_embed",
                            !.base_memory = get_base_memory(memory_base)]
    /\ UNCHANGED <<store_vars, wiring, server, call, tasks>>

\* query_vec = self.embed_fn(query)
RcEmbed ==
    /\ retr.pc = "rc_embed"
    /\ retr' = [retr EXCEPT !.pc = "rc_search", !.query_vec = llm_embed(retr.query)]
    /\ UNCHANGED <<store_vars, wiring, server, call, tasks>>

RcSearch_prune ==
    /\ retr.pc = "rc_search"
    /\ LET results == search_facts(memory_facts, retr.query_vec, config.retrieval_top_k)
           max_distance == 100 - config.retrieval_min_similarity
       IN /\ retr' = MemoryContext(retr, FALSE, keep_relevant(results, max_distance))
          /\ memory_facts' =
                 {f \in memory_facts :
                     \E i \in DOMAIN results :
                        results[i].id = f.id /\ results[i].distance <= max_distance}
    /\ UNCHANGED <<conversation_log, memory_summaries, memory_base, wiring, server, call,
                   tasks>>

\* results = search_facts(query_vec, k=retrieval_top_k), filtered and formatted
RcSearch ==
    /\ retr.pc = "rc_search"
    /\ LET results == search_facts(memory_facts, retr.query_vec, config.retrieval_top_k)
           max_distance == 100 - config.retrieval_min_similarity
       IN retr' = MemoryContext(retr, FALSE, keep_relevant(results, max_distance))
    /\ UNCHANGED <<store_vars, wiring, server, call, tasks>>

RetrieveStep == RcRaise \/ RcBase \/ RcEmbed \/ RcSearch

----------------------------------------------------------------------------
(* conversation.py and server.py: the handler of POST /chat/text.  Handlers *)
(* run on the event loop, one at a time; each process_exchange they         *)
(* schedule runs on a worker thread after the response, beside the next     *)
(* request and beside the process_exchange calls still running.             *)

max_history == 20

\* deque(maxlen=max_history).append
deque_append(deque, item) ==
    IF Len(deque) = max_history
    THEN Append(Tail(deque), item)
    ELSE Append(deque, item)

reversed(seq) == [i \in 1..Len(seq) |-> seq[Len(seq) + 1 - i]]

\* SELECT ... FROM conversation_log ORDER BY id DESC LIMIT n, then reversed(rows)
get_recent_messages(log, n) ==
    LET desc == reversed(log)
        rows == SubSeq(desc, 1, IF Len(desc) < n THEN Len(desc) ELSE n)
    IN reversed(rows)

RECURSIVE append_rows(_, _)
append_rows(deque, rows) ==
    IF rows = <<>> THEN deque
    ELSE append_rows(deque_append(deque, [role |-> Head(rows).role,
                                          content |-> Head(rows).content]),
                     Tail(rows))

\* reload_from_db: rows = db.get_recent_messages(self.max_history);
\* self.messages.clear(); for row in rows: self.messages.append(...)
reload_from_db(log) == append_rows(<<>>, get_recent_messages(log, max_history))

IdleRequest == [pc |-> "idle", turn |-> 0, text |-> <<>>, response |-> <<>>,
                status |-> "none"]

UserTexts == {<<"q">>}
ReplyOutputs == {<<"ok", " ">>}

\* chat_text: conversation.add_user_message(req.text)
ReceiveText(text) ==
    /\ request.pc = "idle"
    /\ request.turn < MaxCalls
    /\ request' = [pc |-> "append_user", turn |-> request.turn + 1, text |-> text,
                   response |-> <<>>, status |-> "none"]
    /\ messages' = deque_append(messages, [role |-> "user", content |-> text])
    /\ UNCHANGED <<store_vars, wiring, call, tasks, retr>>

\* the store call of the handler raises: the request fails
HandlerRaise ==
    /\ request.pc \in {"append_user", "append_assistant"}
    /\ request' = [IdleRequest EXCEPT !.turn = request.turn, !.status = "error"]
    /\ UNCHANGED <<store_vars, wiring, call, tasks, retr, messages>>

\* memory_db.append_message("user", req.text); build_messages calls
\* retrieve_context(last user message)
HAppendUser ==
    /\ request.pc = "append_user"
    /\ conversation_log' = append_message(conversation_log, "user", request.text)
    /\ request' = [request EXCEPT !.pc = "build_messages"]
    /\ retr' = [IdleRetrieval EXCEPT !.pc = "rc_base", !.query = request.text]
    /\ UNCHANGED <<memory_summaries, memory_facts, memory_base, wiring, call, tasks,
                   messages>>

HChat_early ==
    /\ request.pc = "build_messages"
    /\ \E outcome \in Outcomes(ReplyOutputs) :
          /\ request' = [request EXCEPT !.pc = "append_assistant",
                                        !.response = llm_chat(outcome).value]
          /\ messages' = deque_append(messages,
                            [role |-> "assistant", content |-> llm_chat(outcome).value])
    /\ retr' = IdleRetrieval
    /\ UNCHANGED <<store_vars, wiring, call, tasks>>

\* build_messages has its context (or caught the failure);
\* response_text = llm.chat(messages); conversation.add_assistant_message
HChat ==
    /\ request.pc = "build_messages"
    /\ retr.pc \in {"returned", "raised"}
    /\ \E outcome \in Outcomes(ReplyOutputs) :
          /\ request' = [request EXCEPT !.pc = "append_assistant",
                                        !.response = llm_chat(outcome).value]
          /\ messages' = deque_append(messages,
                            [role |-> "assistant", content |-> llm_chat(outcome).value])
    /\ retr' = IdleRetrieval
    /\ UNCHANGED <<store_vars, wiring, call, tasks>>

\* memory_db.append_message("assistant", response_text);
\* background_tasks.add_task(memory_mgr.process_exchange, ...); return
HAppendAssistant ==
    /\ request.pc = "append_assistant"
    /\ conversation_log' =
           append_message(conversation_log, "assistant", request.response)
    /\ request' = [IdleRequest EXCEPT !.turn = request.turn, !.status = "ok"]
    /\ tasks' = [o \in TaskIds |->
                    IF o = request.turn THEN Section(IdleTask, "ef_chat")
                    ELSE IF tasks[o].pc = "done" THEN Section(IdleTask, "done")
                    ELSE tasks[o]]
    /\ UNCHANGED <<memory_summaries, memory_facts, memory_base, wiring, call, retr,
                   messages>>

HandlerStep ==
    \/ \E text \in UserTexts : ReceiveText(text)
    \/ HandlerRaise
    \/ HAppendUser
    \/ HChat
    \/ HAppendAssistant

----------------------------------------------------------------------------
(* decision.py and server.chat_audio: the voice turn *)

\* HALLUCINATION_BLOCKLIST, the entries these runs use
HALLUCINATION_BLOCKLIST == {<<"thank", " ", "you">>, <<"hey">>}

\* _PUNCT_RE.sub("", text): the characters that are neither word characters nor
\* whitespace, here the tokens "." and "!", are dropped
Punctuation == {".", "!"}

IsNotPunctuation(token) == token \notin Punctuation

\* str.lower(), on the capitalised tokens of these runs
lower(text) ==
    [i \in DOMAIN text |-> IF text[i] = "Thank" THEN "thank" ELSE text[i]]

\* _normalize(text)
_normalize(text) == strip(SelectSeq(lower(text), IsNotPunctuation))

\* _word_count(text): the words left when the punctuation is dropped
_word_count(text) ==
    LET cleaned == strip(SelectSeq(text, IsNotPunctuation))
    IN Cardinality({i \in DOMAIN cleaned : cleaned[i] \notin Whitespace})

heuristic_filter_no_blocklist(result) ==
    IF result.audio_duration < 50 THEN "audio_too_short"
    ELSE IF result.avg_no_speech_prob > 70 THEN "high_no_speech_prob"
    ELSE IF _word_count(result.text) < 2 THEN "too_few_words"
    ELSE IF /\ result.audio_duration < 100
            /\ result.no_speech_prob > 50
            /\ result.segment_count <= 1
    THEN "combined_weak_signals"
    ELSE ""

\* heuristic_filter(result): the rejection reason, "" for None; durations and
\* probabilities in hundredths
heuristic_filter(result) ==
    IF result.audio_duration < 50 THEN "audio_too_short"
    ELSE IF result.avg_no_speech_prob > 70 THEN "high_no_speech_prob"
    ELSE IF _word_count(result.text) < 2 THEN "too_few_words"
    ELSE IF _normalize(result.text) \in HALLUCINATION_BLOCKLIST THEN "hallucination_blocklist"
    ELSE IF /\ result.audio_duration < 100
            /\ result.no_speech_prob > 50
            /\ result.segment_count <= 1
    THEN "combined_weak_signals"
    ELSE ""

\* parse_llm_response(raw): the action prefix and the text without it
parse_llm_response(raw) ==
    LET stripped == strip(raw)
    IN  IF stripped /= <<>> /\ stripped[1] = "[IGNORE]"
        THEN [action |-> "ignore", cleaned_text |-> strip(Tail(stripped))]
        ELSE IF stripped /= <<>> /\ stripped[1] = "[REACT]"
        THEN [action |-> "react", cleaned_text |-> strip(Tail(stripped))]
        ELSE [action |-> "respond", cleaned_text |-> stripped]

\* what stt.transcribe returns in these runs
TranscriptionResults ==
    {[text |-> text, audio_duration |-> d, avg_no_speech_prob |-> avg,
      no_speech_prob |-> nsp, segment_count |-> 1] :
        text \in {<<>>, <<"um">>, <<"um", " ", "!">>, <<"Thank", " ", "you", ".">>,
                  <<"hello", " ", "there">>},
        d \in {30, 80, 200}, avg \in {10, 80}, nsp \in {10, 60}}

AudioReplyOutputs == {<<"ok", " ">>, <<"[IGNORE]", " ", "noise">>, <<"[REACT]", "nod">>}

\* chat_audio up to conversation.add_user_message(result.text): an empty or
\* filtered transcription is answered with action "ignore" and changes nothing
ReceiveAudio(result) ==
    /\ request.pc = "idle"
    /\ request.turn < MaxCalls
    /\ IF result.text = <<>> \/ heuristic_filter(result) /= ""
       THEN /\ request' = [IdleRequest EXCEPT !.turn = request.turn, !.status = "ignore"]
            /\ UNCHANGED messages
       ELSE /\ request' = [pc |-> "audio_append_user", turn |-> request.turn + 1,
                           text |-> result.text, response |-> <<>>, status |-> "none"]
            /\ messages' = deque_append(messages,
                              [role |-> "user", content |-> result.text])
    /\ UNCHANGED <<store_vars, wiring, call, tasks, retr>>

\* a store call of the handler, or tts.synthesize, raises: the request fails, and
\* a background task added to it is never run
AudioRaise ==
    /\ request.pc \in {"audio_append_user", "audio_append_assistant", "audio_synthesize"}
    /\ request' = [IdleRequest EXCEPT !.turn = request.turn, !.status = "error"]
    /\ UNCHANGED <<store_vars, wiring, call, tasks, retr, messages>>

\* memory_db.append_message("user", result.text); build_messages calls
\* retrieve_context(last user message)
AAppendUser ==
    /\ request.pc = "audio_append_user"
    /\ conversation_log' = append_message(conversation_log, "user", request.text)
    /\ request' = [request EXCEPT !.pc = "audio_build_messages"]
    /\ retr' = [IdleRetrieval EXCEPT !.pc = "rc_base", !.query = request.text]
    /\ UNCHANGED <<memory_summaries, memory_facts, memory_base, wiring, call, tasks,
                   messages>>

\* raw_response = llm.chat(messages); conversation.add_assistant_message(raw_response)
AChat ==
    /\ request.pc = "audio_build_messages"
    /\ retr.pc \in {"returned", "raised"}
    /\ \E outcome \in Outcomes(AudioReplyOutputs) :
          /\ request' = [request EXCEPT !.pc = "audio_append_assistant",
                                        !.response = llm_chat(outcome).value]
          /\ messages' = deque_append(messages,
                            [role |-> "assistant", content |-> llm_chat(outcome).value])
    /\ retr' = IdleRetrieval
    /\ UNCHANGED <<store_vars, wiring, call, tasks>>

\* the response is sent and the background task added for the turn starts
StartBackground(turn) ==
    [o \in TaskIds |->
        IF o = turn THEN Section(IdleTask, "ef_chat")
        ELSE IF tasks[o].pc = "done" THEN Section(IdleTask, "done")
        ELSE tasks[o]]

AAppendAssistant_always ==
    /\ request.pc = "audio_append_assistant"
    /\ conversation_log' =
           append_message(conversation_log, "assistant", request.response)
    /\ LET action == parse_llm_response(request.response).action
       IN  /\ request' =
                  IF action = "respond"
                  THEN [request EXCEPT !.pc = "audio_synthesize"]
                  ELSE [IdleRequest EXCEPT !.turn = request.turn, !.status = "ok"]
           /\ tasks' = IF action /= "respond" THEN StartBackground(request.turn)
                       ELSE tasks
    /\ UNCHANGED <<memory_summaries, memory_facts, memory_base, wiring, call, retr,
                   messages>>

\* memory_db.append_message("assistant", raw_response); add_task unless the
\* action is IGNORE; IGNORE and REACT return here, RESPOND goes on to tts
AAppendAssistant ==
    /\ request.pc = "audio_append_assistant"
    /\ conversation_log' =
           append_message(conversation_log, "assistant", request.response)
    /\ LET action == parse_llm_response(request.response).action
       IN  /\ request' =
                  IF action = "respond"
                  THEN [request EXCEPT !.pc = "audio_synthesize"]
                  ELSE [IdleRequest EXCEPT !.turn = request.turn, !.status = "ok"]
           /\ tasks' = IF action = "react" THEN StartBackground(request.turn) ELSE tasks
    /\ UNCHANGED <<memory_summaries, memory_facts, memory_base, wiring, call, retr,
                   messages>>

\* audio_response = tts.synthesize(cleaned_text); return
ASynthesize ==
    /\ request.pc = "audio_synthesize"
    /\ request' = [IdleRequest EXCEPT !.turn = request.turn, !.status = "ok"]
    /\ tasks' = StartBackground(request.turn)
    /\ UNCHANGED <<store_vars, wiring, call, retr, messages>>

AudioStep ==
    \/ \E result \in TranscriptionResults : ReceiveAudio(result)
    \/ AudioRaise
    \/ AAppendUser
    \/ AChat
    \/ AAppendAssistant
    \/ ASynthesize

\* server.lifespan: MemoryManager(db=memory_db, embed_fn=llm.embed, chat_fn=llm.chat)
WiredConfigs ==
    {[MemoryConfig EXCEPT !.short_term_threshold = 2, !.short_term_keep = 1,
                          !.long_term_threshold = 1, !.long_term_keep = 0]}

WiredOutputs ==
    [extraction |-> {<<"[f]">>}, summary |-> {<<"S">>}, distill |-> {<<"B">>},
     raising |-> {"ef_embed", "st_insert", "lt_set"}]

Init ==
    /\ conversation_log = <<>>
    /\ memory_summaries = <<>>
    /\ memory_facts = {}
    /\ memory_base = create_tables_base
    /\ config \in WiredConfigs
    /\ chat_fn = "llm.chat"
    /\ call = NoCall
    /\ tasks = [t \in TaskIds |-> IdleTask]
    /\ retr = IdleRetrieval
    /\ request = IdleRequest
    /\ messages = <<>>

Next ==
    \/ HandlerStep
    \/ RetrieveStep
    \/ \E t \in TaskIds : TaskStep(t, WiredOutputs)

Spec == Init /\ [][Next]_vars

----------------------------------------------------------------------------
(* The manager driven by one caller: messages are appended and               *)
(* process_exchange is called, each call returning before the next begins    *)

\* (threshold, keep) of each cascade: as intended (keep < threshold) and misused
ShortTermPairs == {<<2, 0>>, <<2, 1>>, <<3, 1>>, <<2, 2>>, <<2, 3>>}
LongTermPairs == {<<1, 0>>, <<2, 1>>, <<2, 2>>, <<2, 3>>}

Configs ==
    {[MemoryConfig EXCEPT !.short_term_threshold = st[1], !.short_term_keep = st[2],
                          !.long_term_threshold = lt[1], !.long_term_keep = lt[2]] :
        st \in ShortTermPairs, lt \in LongTermPairs}

\* the model's answers in these runs
SeqOutputs ==
    [extraction |-> {<<"[f]">>, <<"no facts">>},
     summary |-> SummaryOutputs,
     distill |-> DistillOutputs,
     raising |-> RaisingPcs]

Quiescent == \A t \in TaskIds : tasks[t].pc \notin ActivePcs

InitSeq ==
    /\ conversation_log = <<>>
    /\ memory_summaries = <<>>
    /\ memory_facts = {}
    /\ memory_base = create_tables_base
    /\ config \in Configs
    /\ chat_fn = "callable"
    /\ call = NoCall
    /\ tasks = [t \in TaskIds |-> IdleTask]
    /\ retr = IdleRetrieval
    /\ request = IdleRequest
    /\ messages = <<>>

\* the caller of a turn appends the user's message, then the assistant's
turn_role(log) == IF Len(log) % 2 = 0 THEN "user" ELSE "assistant"

SeqAppend(content) ==
    /\ Quiescent
    /\ Len(conversation_log) < MaxLog
    /\ conversation_log' =
           append_message(conversation_log, turn_role(conversation_log), content)
    /\ UNCHANGED <<memory_summaries, memory_facts, memory_base, wiring, server, call,
                   tasks, retr>>

\* the caller reads the log of the call that returned before it calls again
SeqStart(t) ==
    /\ Quiescent
    /\ tasks[t].pc = "idle"
    /\ \A o \in TaskIds : o < t => tasks[o].pc /= "idle"
    /\ tasks' = [o \in TaskIds |->
                    IF o = t THEN Section(IdleTask, "ef_chat")
                    ELSE IF tasks[o].pc = "idle" THEN IdleTask
                    ELSE Section(IdleTask, tasks[o].pc)]
    /\ UNCHANGED <<store_vars, wiring, server, call, retr>>

NextSeq ==
    \/ \E content \in HarnessTexts : SeqAppend(content)
    \/ \E t \in TaskIds : SeqStart(t)
    \/ \E t \in TaskIds : TaskStep(t, SeqOutputs)

SpecSeq == InitSeq /\ [][NextSeq]_vars

----------------------------------------------------------------------------
(* The store driven directly through its API, one call at a time *)

InitStore ==
    /\ conversation_log = <<>>
    /\ memory_summaries = <<>>
    /\ memory_facts = {}
    /\ memory_base = create_tables_base
    /\ config = MemoryConfig
    /\ chat_fn = "llm.chat"
    /\ call = NoCall
    /\ tasks = [t \in TaskIds |-> IdleTask]
    /\ retr = IdleRetrieval
    /\ request = IdleRequest
    /\ messages = <<>>

CallAppendMessage(role, content) ==
    /\ Len(conversation_log) < MaxLog
    /\ conversation_log' = append_message(conversation_log, role, content)
    /\ call' = Then("append_message", next_rowid(conversation_log))
    /\ UNCHANGED <<memory_summaries, memory_facts, memory_base, wiring, server, tasks, retr>>

CallMarkSummarized(up_to_id) ==
    /\ conversation_log' = mark_summarized(conversation_log, up_to_id)
    /\ call' = Then("mark_summarized", up_to_id)
    /\ UNCHANGED <<memory_summaries, memory_facts, memory_base, wiring, server, tasks, retr>>

CallInsertSummary(content, from_id, to_id) ==
    /\ Len(memory_summaries) < MaxSummaries
    /\ memory_summaries' = insert_summary(memory_summaries, content, from_id, to_id)
    /\ call' = Then("insert_summary", next_rowid(memory_summaries))
    /\ UNCHANGED <<conversation_log, memory_facts, memory_base, wiring, server, tasks, retr>>

CallMarkIncorporated(up_to_id) ==
    /\ memory_summaries' = mark_incorporated(memory_summaries, up_to_id)
    /\ call' = Then("mark_incorporated", up_to_id)
    /\ UNCHANGED <<conversation_log, memory_facts, memory_base, wiring, server, tasks, retr>>

CallSetBaseMemory(content) ==
    /\ memory_base' = set_base_memory(memory_base, content)
    /\ call' = Then("set_base_memory", 0)
    /\ UNCHANGED <<conversation_log, memory_summaries, memory_facts, wiring, server, tasks, retr>>

NextStore ==
    \/ \E role \in Roles, content \in HarnessTexts : CallAppendMessage(role, content)
    \/ \E id \in 0 .. MaxLog + 1 : CallMarkSummarized(id)
    \/ \E content \in HarnessTexts : CallInsertSummary(content, 1, 2)
    \/ \E id \in 0 .. MaxSummaries + 1 : CallMarkIncorporated(id)
    \/ \E content \in BaseTexts : CallSetBaseMemory(content)

SpecStore == InitStore /\ [][NextStore]_vars

----------------------------------------------------------------------------
(* retrieve_context over a store filled through the store's API *)

Queries == {<<"q">>, <<"r">>}
FactTexts == {<<"f">>, <<"g">>, <<"h">>}
StoredBaseTexts == {<<>>, <<" ">>, <<"B">>}

RetrievalConfigs ==
    {[MemoryConfig EXCEPT !.retrieval_top_k = k, !.retrieval_min_similarity = sim] :
        k \in {2, 5}, sim \in {30, 85}}

InitRetrieve ==
    /\ conversation_log = <<>>
    /\ memory_summaries = <<>>
    /\ memory_facts = {}
    /\ memory_base = create_tables_base
    /\ config \in RetrievalConfigs
    /\ chat_fn = "llm.chat"
    /\ call = NoCall
    /\ tasks = [t \in TaskIds |-> IdleTask]
    /\ retr = IdleRetrieval
    /\ request = IdleRequest
    /\ messages = <<>>

RetrievalResting == retr.pc \in {"idle", "returned", "raised"}

CallInsertFact(content) ==
    /\ RetrievalResting
    /\ Cardinality(memory_facts) < MaxFacts
    /\ memory_facts' = insert_fact(memory_facts, content, llm_embed(content),
                                   "extraction", "knowledge")
    /\ UNCHANGED <<conversation_log, memory_summaries, memory_base, wiring, server, call,
                   tasks, retr>>

StoreBaseMemory(content) ==
    /\ RetrievalResting
    /\ memory_base' = set_base_memory(memory_base, content)
    /\ UNCHANGED <<conversation_log, memory_summaries, memory_facts, wiring, server, call,
                   tasks, retr>>

NextRetrieve ==
    \/ \E content \in FactTexts : CallInsertFact(content)
    \/ \E content \in StoredBaseTexts : StoreBaseMemory(content)
    \/ \E query \in Queries : StartRetrieve(query)
    \/ RetrieveStep

SpecRetrieve == InitRetrieve /\ [][NextRetrieve]_vars

----------------------------------------------------------------------------
(* _extract_facts called by one caller, each call returning (pc "st_count")  *)
(* before the next begins                                                     *)

ExtractConfigs ==
    {[MemoryConfig EXCEPT !.duplicate_distance_threshold = d] : d \in {5, 15}}

ExtractOutputs ==
    [extraction |-> {<<"[f]">>, <<"[g,h]">>, <<"[h]">>, <<"[_,f]">>, <<"[1]">>},
     summary |-> SummaryOutputs,
     distill |-> DistillOutputs,
     raising |-> ExtractPcs]

InitExtract ==
    /\ conversation_log = <<>>
    /\ memory_summaries = <<>>
    /\ memory_facts = {}
    /\ memory_base = create_tables_base
    /\ config \in ExtractConfigs
    /\ chat_fn = "callable"
    /\ call = NoCall
    /\ tasks = [t \in TaskIds |-> IdleTask]
    /\ retr = IdleRetrieval
    /\ request = IdleRequest
    /\ messages = <<>>

ExtractStart(t) ==
    /\ \A o \in TaskIds : tasks[o].pc \notin ExtractPcs
    /\ tasks[t].pc = "idle"
    /\ \A o \in TaskIds : o < t => tasks[o].pc /= "idle"
    /\ SetTask(t, Section(tasks[t], "ef_chat"))
    /\ UNCHANGED <<store_vars, wiring, server, call, retr>>

ExtractStep(t, outputs) ==
    \/ TaskRaise(t, outputs)
    \/ EfChat(t, outputs) \/ EfEmbed(t) \/ EfSearch(t) \/ EfDelete(t) \/ EfInsert(t)

NextExtract ==
    \/ \E t \in TaskIds : ExtractStart(t)
    \/ \E t \in TaskIds : ExtractStep(t, ExtractOutputs)

SpecExtract == InitExtract /\ [][NextExtract]_vars

----------------------------------------------------------------------------
(* The server's two chat endpoints *)

\* both endpoints of the server; a background call is followed to the end of
\* _extract_facts (pc "st_count")
TurnOutputs ==
    [extraction |-> {<<"[f]">>}, summary |-> {<<"S">>}, distill |-> {<<"B">>},
     raising |-> {"ef_embed"}]

NextTurns ==
    \/ HandlerStep
    \/ AudioStep
    \/ RetrieveStep
    \/ \E t \in TaskIds : ExtractStep(t, TurnOutputs)

SpecTurns == Init /\ [][NextTurns]_vars

----------------------------------------------------------------------------
(* The rolling history beside the durable log: the server starts on the log  *)
(* earlier runs left, serves turns, and is stopped and started again         *)

\* lengths of the log an earlier run left on disk
PriorLengths == {0, max_history - 1, max_history, max_history + 1}

RECURSIVE prior_log(_)
prior_log(n) ==
    IF n = 0 THEN <<>>
    ELSE LET log == prior_log(n - 1)
         IN append_message(log, turn_role(log),
                           IF turn_role(log) = "user" THEN <<"q">> ELSE <<"ok", " ">>)

\* server.lifespan has run: memory_db.initialize(), ConversationManager(),
\* conversation.reload_from_db(memory_db)
InitHistory ==
    /\ \E n \in PriorLengths : conversation_log = prior_log(n)
    /\ memory_summaries = <<>>
    /\ memory_facts = {}
    /\ memory_base = create_tables_base
    /\ config \in WiredConfigs
    /\ chat_fn = "llm.chat"
    /\ call = NoCall
    /\ tasks = [t \in TaskIds |-> IdleTask]
    /\ retr = IdleRetrieval
    /\ request = IdleRequest
    /\ messages = reload_from_db(conversation_log)

\* the process stops, wherever its handler and its background tasks are, and
\* server.lifespan runs again on the database it left
Lifespan ==
    /\ request.status /= "started"
    /\ tasks' = [o \in TaskIds |->
                    IF tasks[o].pc \in ActivePcs
                    THEN [tasks[o] EXCEPT !.pc = "stopped"]
                    ELSE tasks[o]]
    /\ memory_base' = create_tables(memory_base)
    /\ messages' = reload_from_db(conversation_log)
    /\ request' = [IdleRequest EXCEPT !.turn = request.turn, !.status = "started"]
    /\ retr' = IdleRetrieval
    /\ UNCHANGED <<conversation_log, memory_summaries, memory_facts, wiring, call>>

NextHistory ==
    \/ NextTurns
    \/ Lifespan

SpecHistory == InitHistory /\ [][NextHistory]_vars

----------------------------------------------------------------------------
(* process_exchange on extraction output of every shape, one call at a time *)

FencedObject == <<"<fence>", "json", "\n", "{}", "\n", "<fence>">>
FencedFact == <<"<fence>", "\n", "[f]", "\n", "<fence>", "\n">>

ParseOutputs ==
    [extraction |-> {<<>>, <<"no facts">>, <<"{}">>, <<"[f]", " ", "[f]">>,
                     FencedObject, FencedFact, <<"[[[...">>},
     summary |-> {<<"S">>},
     distill |-> {<<"B">>},
     raising |-> {"ef_embed", "st_insert", "lt_set"}]

InitParse ==
    /\ conversation_log = <<>>
    /\ memory_summaries = <<>>
    /\ memory_facts = {}
    /\ memory_base = create_tables_base
    /\ config \in WiredConfigs
    /\ chat_fn = "llm.chat"
    /\ call = NoCall
    /\ tasks = [t \in TaskIds |-> IdleTask]
    /\ retr = IdleRetrieval
    /\ request = IdleRequest
    /\ messages = <<>>

NextParse ==
    \/ \E content \in HarnessTexts : SeqAppend(content)
    \/ \E t \in TaskIds : SeqStart(t)
    \/ \E t \in TaskIds : TaskStep(t, ParseOutputs)

SpecParse == InitParse /\ [][NextParse]_vars

----------------------------------------------------------------------------
(* process_exchange on exchanges that state several facts, with every call  *)
(* of _extract_facts and _deduplicate_and_insert able to raise               *)

FactsConfigs ==
    {[MemoryConfig EXCEPT !.short_term_threshold = 2, !.short_term_keep = 1,
                          !.long_term_threshold = 1, !.long_term_keep = 0,
                          !.duplicate_distance_threshold = d] : d \in {5, 15}}

FactsOutputs ==
    [extraction |-> {<<"[f]">>, <<"[g,h]">>},
     summary |-> {<<"S">>},
     distill |-> {<<"B">>},
     raising |-> ExtractPcs]

InitFacts ==
    /\ conversation_log = <<>>
    /\ memory_summaries = <<>>
    /\ memory_facts = {}
    /\ memory_base = create_tables_base
    /\ config \in FactsConfigs
    /\ chat_fn = "llm.chat"
    /\ call = NoCall
    /\ tasks = [t \in TaskIds |-> IdleTask]
    /\ retr = IdleRetrieval
    /\ request = IdleRequest
    /\ messages = <<>>

NextFacts ==
    \/ \E content \in HarnessTexts : SeqAppend(content)
    \/ \E t \in TaskIds : SeqStart(t)
    \/ \E t \in TaskIds : TaskStep(t, FactsOutputs)

SpecFacts == InitFacts /\ [][NextFacts]_vars

----------------------------------------------------------------------------
(* The manager across restarts: a process_exchange call may be abandoned     *)
(* wherever it is (the process stops): its record keeps the locals it had,   *)
(* at position "stopped", and the next call begins in the restarted process, *)
(* on the same database                                                      *)

RestartConfigs ==
    {[MemoryConfig EXCEPT !.short_term_threshold = st[1], !.short_term_keep = st[2],
                          !.long_term_threshold = 1, !.long_term_keep = 0] :
        st \in ShortTermPairs}

RestartOutputs ==
    [extraction |-> {<<"[f]">>}, summary |-> {<<"S">>}, distill |-> {<<"B">>},
     raising |-> {"st_insert"}]

InitRestart ==
    /\ conversation_log = <<>>
    /\ memory_summaries = <<>>
    /\ memory_facts = {}
    /\ memory_base = create_tables_base
    /\ config \in RestartConfigs
    /\ chat_fn = "callable"
    /\ call = NoCall
    /\ tasks = [t \in TaskIds |-> IdleTask]
    /\ retr = IdleRetrieval
    /\ request = IdleRequest
    /\ messages = <<>>

RestartAppend(content) ==
    /\ Len(conversation_log) < MaxLog
    /\ conversation_log' =
           append_message(conversation_log, turn_role(conversation_log), content)
    /\ UNCHANGED <<memory_summaries, memory_facts, memory_base, wiring, server, call,
                   tasks, retr>>

\* the call before it returned, or its process stopped; the next call begins
RestartStart(t) ==
    /\ tasks[t].pc = "idle"
    /\ \A o \in TaskIds : o < t => tasks[o].pc /= "idle"
    /\ tasks' = [o \in TaskIds |->
                    IF o = t THEN Section(IdleTask, "ef_chat")
                    ELSE IF tasks[o].pc \in ActivePcs
                    THEN [tasks[o] EXCEPT !.pc = "stopped"]
                    ELSE tasks[o]]
    /\ call' = NoCall
    /\ UNCHANGED <<store_vars, wiring, server, retr>>

\* the process stops and starts again: server.lifespan calls
\* memory_db.initialize() on the database as the stopped process left it,
\* and conversation.reload_from_db(memory_db)
RestartInitialize ==
    /\ call.op /= "initialize"
    /\ tasks' = [o \in TaskIds |->
                    IF tasks[o].pc \in ActivePcs
                    THEN [tasks[o] EXCEPT !.pc = "stopped"]
                    ELSE tasks[o]]
    /\ memory_base' = create_tables(memory_base)
    /\ call' = [NoCall EXCEPT !.op = "initialize"]
    /\ messages' = reload_from_db(conversation_log)
    /\ UNCHANGED <<conversation_log, memory_summaries, memory_facts, wiring, request,
                   retr>>

NextRestart ==
    \/ \E content \in HarnessTexts : RestartAppend(content)
    \/ RestartInitialize
    \/ \E t \in TaskIds : RestartStart(t)
    \/ \E t \in TaskIds : TaskStep(t, RestartOutputs)

SpecRestart == InitRestart /\ [][NextRestart]_vars

----------------------------------------------------------------------------
(* The store's one connection used by two kinds of thread at once            *)
(* (check_same_thread=False): the caller that appends messages, and the      *)
(* process_exchange calls running in the background                          *)

\* cur.lastrowid after an INSERT: the connection's last insert rowid, which is
\* the caller's own row, or the row of an INSERT another thread runs on the
\* connection at the same time (a Summary at st_insert, a fact at ef_insert)
lastrowid(own) ==
    {own}
        \cup {next_rowid(memory_summaries) :
                  t \in {u \in TaskIds : tasks[u].pc = "st_insert"}}
        \cup {next_fact_id(memory_facts) :
                  t \in {u \in TaskIds : tasks[u].pc = "ef_insert"}}

InitShared ==
    /\ conversation_log = <<>>
    /\ memory_summaries = <<>>
    /\ memory_facts = {}
    /\ memory_base = create_tables_base
    /\ config \in WiredConfigs
    /\ chat_fn = "llm.chat"
    /\ call = NoCall
    /\ tasks = [t \in TaskIds |-> IdleTask]
    /\ retr = IdleRetrieval
    /\ request = IdleRequest
    /\ messages = <<>>

\* append_message(role, content), returning cur.lastrowid
SharedAppend(content) ==
    /\ Len(conversation_log) < MaxLog
    /\ conversation_log' =
           append_message(conversation_log, turn_role(conversation_log), content)
    /\ \E id \in lastrowid(next_rowid(conversation_log)) :
          call' = [op |-> "append_message", arg |-> id,
                   prev_op |-> "none", prev_arg |-> 0]
    /\ UNCHANGED <<memory_summaries, memory_facts, memory_base, wiring, server,
                   tasks, retr>>

\* process_exchange is handed to a worker thread, a turn being in the log
SharedStart(t) ==
    /\ tasks[t].pc = "idle"
    /\ \A o \in TaskIds : o < t => tasks[o].pc /= "idle"
    /\ Len(conversation_log) >= 2
    /\ SetTask(t, Section(IdleTask, "ef_chat"))
    /\ UNCHANGED <<store_vars, wiring, server, call, retr>>

NextShared ==
    \/ \E content \in HarnessTexts : SharedAppend(content)
    \/ \E t \in TaskIds : SharedStart(t)
    \/ \E t \in TaskIds : TaskStep(t, WiredOutputs)

SpecShared == InitShared /\ [][NextShared]_vars

----------------------------------------------------------------------------
(* Claims *)

\* C1: the short-term check of a process_exchange call, run with n unsummarized
\* messages: below short_term_threshold nothing happens; otherwise, with
\* short_term_keep < n, the candidates are the oldest n - keep unsummarized
\* messages, exactly one Summary is inserted and it carries the first and last
\* candidate ids, and after the mark exactly the keep most recent of the n
\* messages are unsummarized.
C1_ShortTermCascade ==
    [][\A t \in TaskIds :
        LET task == tasks[t]
            after == tasks'[t]
            unsummarized == get_unsummarized_messages(conversation_log)
            n == Len(unsummarized)
            keep == config.short_term_keep
            returned == after /= task /\ "st" \notin after.errors
        IN /\ (task.pc = "st_count" /\ returned /\ n < config.short_term_threshold)
                => after.pc = "lt_count" /\ UNCHANGED store_vars
           /\ (task.pc = "st_count" /\ returned /\ n >= config.short_term_threshold)
                => after.pc = "st_get"
           /\ (task.pc = "st_get" /\ returned /\ keep < n)
                => /\ after.pc = "st_chat"
                   /\ after.msgs = unsummarized
                   /\ after.to_summarize = SubSeq(unsummarized, 1, n - keep)
           /\ (task.pc = "st_insert" /\ returned /\ keep < Len(task.msgs))
                => /\ Len(memory_summaries') = Len(memory_summaries) + 1
                   /\ LET new == memory_summaries'[Len(memory_summaries')]
                      IN /\ new.source_from_id = task.msgs[1].id
                         /\ new.source_to_id = task.msgs[Len(task.msgs) - keep].id
                         /\ ~new.incorporated
                   /\ SubSeq(memory_summaries', 1, Len(memory_summaries))
                        = memory_summaries
           /\ (task.pc = "st_mark" /\ returned /\ keep < Len(task.msgs))
                => /\ get_unsummarized_messages(conversation_log')
                        = SubSeq(task.msgs, Len(task.msgs) - keep + 1, Len(task.msgs))
                   /\ count_unsummarized(conversation_log') = keep
                   /\ memory_summaries' = memory_summaries
           /\ (task.pc \in ShortPcs \ {"st_insert"})
                => Len(memory_summaries') = Len(memory_summaries)]_vars

C1_Witness ==
    \E t \in TaskIds :
        /\ tasks[t].pc = "lt_count"
        /\ "st" \notin tasks[t].errors
        /\ config.short_term_keep = 1
        /\ config.short_term_threshold = 3
        /\ Len(conversation_log) = 3
        /\ count_unsummarized(conversation_log) = 1
        /\ Len(memory_summaries) = 1
        /\ memory_summaries[1].source_from_id = 1
        /\ memory_summaries[1].source_to_id = 2

\* C2: mark_summarized(a) followed by mark_summarized(b) with a >= b leaves every
\* message's summarized flag as the first call left it; mark_incorporated likewise
\* on the summaries.
C2_MarksIdempotent ==
    [][/\ (/\ call'.op = "mark_summarized"
           /\ call'.prev_op = "mark_summarized"
           /\ call'.arg <= call'.prev_arg)
          => conversation_log' = conversation_log
       /\ (/\ call'.op = "mark_incorporated"
           /\ call'.prev_op = "mark_incorporated"
           /\ call'.arg <= call'.prev_arg)
          => memory_summaries' = memory_summaries]_vars

C2_Witness ==
    /\ call.op = "mark_summarized"
    /\ call.prev_op = "mark_summarized"
    /\ call.prev_arg = 2
    /\ call.arg = 1
    /\ Len(conversation_log) = 3
    /\ count_unsummarized(conversation_log) = 1

\* C3: in every step a message's summarized flag and a summary's incorporated
\* flag either keep their value or go from false to true, and every message row
\* and summary row stays in its table under its id.
C3_FlagsOneWay ==
    [][/\ Len(conversation_log') >= Len(conversation_log)
       /\ \A i \in DOMAIN conversation_log :
             /\ conversation_log'[i].id = conversation_log[i].id
             /\ conversation_log[i].summarized => conversation_log'[i].summarized
       /\ Len(memory_summaries') >= Len(memory_summaries)
       /\ \A i \in DOMAIN memory_summaries :
             /\ memory_summaries'[i].id = memory_summaries[i].id
             /\ memory_summaries[i].incorporated => memory_summaries'[i].incorporated
      ]_vars

C3_Witness ==
    /\ call.op = "mark_summarized"
    /\ call.arg = 0
    /\ Len(conversation_log) = 3
    /\ count_unsummarized(conversation_log) = 0
    /\ Len(memory_summaries) = 2
    /\ count_unincorporated_summaries(memory_summaries) = 1

\* C4 (as claimed): once llm.chat has logged the failure of a cascade's chat call,
\* that cascade stores no Summary and marks no message (short-term), and leaves
\* the base memory and the summaries as they are (long-term).
C4_FailedChatSkips ==
    [][\A t \in TaskIds :
        (tasks[t].chat_error /\ tasks'[t] /= tasks[t])
            => UNCHANGED <<conversation_log, memory_summaries, memory_base>>]_vars

\* C5 (as claimed): at most one process_exchange call is between the trigger
\* check and the mark of the short-term cascade, and at most one between those
\* of the long-term cascade.
C5_CascadesSerialized ==
    /\ Cardinality({t \in TaskIds : tasks[t].pc \in ShortPcs \ {"st_count"}}) <= 1
    /\ Cardinality({t \in TaskIds : tasks[t].pc \in LongPcs \ {"lt_count"}}) <= 1

\* C11: when a new fact is handled and some stored fact is nearer to it than
\* duplicate_distance_threshold, the nearest stored fact is deleted and the new
\* fact inserted: the old row is gone, one row carries the new content, and the
\* number of facts is what it was.
C11_FactReplacement ==
    [][\A t \in TaskIds :
        LET task == tasks[t]
            after == tasks'[t]
            returned == after /= task /\ "ef" \notin after.errors
            near == {r \in memory_facts :
                        Distance(r.embedding, task.vec)
                            < config.duplicate_distance_threshold}
            nearest(r) == \A o \in memory_facts :
                             Distance(r.embedding, task.vec)
                                 <= Distance(o.embedding, task.vec)
        IN /\ (task.pc = "ef_search" /\ returned /\ near /= {})
                => /\ after.pc = "ef_delete"
                   /\ \E r \in near : nearest(r) /\ after.existing[1].id = r.id
           /\ (task.pc = "ef_delete" /\ returned)
                => /\ after.pc = "ef_insert"
                   /\ memory_facts' =
                         {r \in memory_facts : r.id /= task.existing[1].id}
                   /\ Cardinality(memory_facts') = Cardinality(memory_facts) - 1
           /\ (task.pc = "ef_insert" /\ returned /\ task.existing /= <<>>
                  /\ task.existing[1].distance < config.duplicate_distance_threshold)
                => /\ Cardinality(memory_facts') = Cardinality(memory_facts) + 1
                   /\ \E new \in memory_facts' \ memory_facts :
                         /\ new.content = task.fact_text
                         /\ new.embedding = task.vec
                         /\ memory_facts' = memory_facts \cup {new}
                   /\ \A r \in memory_facts' :
                         r.id = task.existing[1].id => r.content = task.fact_text
      ]_vars

\* the first call stored one fact; the second, answering [g,h], has replaced it
\* by g (distance 0.05) and is about to handle h
C11_Witness ==
    /\ config.duplicate_distance_threshold = 15
    /\ tasks[1].pc = "st_count"
    /\ tasks[1].errors = {}
    /\ tasks[2].pc = "ef_embed"
    /\ tasks[2].fact_text = <<"h">>
    /\ {r.content : r \in memory_facts} = {<<"g">>}
    /\ Cardinality(memory_facts) = 1

\* the items of a parsed answer that carry a text, in order
RECURSIVE C12_WithText(_)
C12_WithText(items) ==
    IF items = <<>> THEN <<>>
    ELSE (IF strip(Head(items).fact) /= <<>> THEN <<Head(items)>> ELSE <<>>)
         \o C12_WithText(Tail(items))

\* C12: every extracted item with a non-empty text is embedded, looked up and
\* inserted, one after the other, replaced or not; when no stored fact is nearer
\* than duplicate_distance_threshold (or none is stored) nothing is deleted, and
\* the insert adds exactly one fact, with the item's text.
C12_EveryFactInserted ==
    [][\A t \in TaskIds :
        LET task == tasks[t]
            after == tasks'[t]
            returned == after /= task /\ "ef" \notin after.errors
            near == {r \in memory_facts :
                        Distance(r.embedding, task.vec)
                            < config.duplicate_distance_threshold}
            rest == C12_WithText(Tail(task.items))
        IN /\ (task.pc = "ef_chat" /\ returned)
                => \E raw \in ExtractOutputs.extraction :
                      LET texts == C12_WithText(parse_facts_json(raw))
                      IN IF texts = <<>> THEN after.pc = "st_count"
                         ELSE /\ after.pc = "ef_embed"
                              /\ after.fact_text = strip(texts[1].fact)
                              /\ C12_WithText(after.items) = texts
           /\ (task.pc = "ef_embed" /\ returned) => after.pc = "ef_search"
           /\ (task.pc = "ef_search" /\ returned /\ near = {})
                => after.pc = "ef_insert" /\ memory_facts' = memory_facts
           /\ (task.pc = "ef_search" /\ returned /\ near /= {})
                => after.pc = "ef_delete"
           /\ (task.pc = "ef_delete" /\ returned) => after.pc = "ef_insert"
           /\ (task.pc = "ef_insert" /\ returned)
                => /\ Cardinality(memory_facts') = Cardinality(memory_facts) + 1
                   /\ \E new \in memory_facts' \ memory_facts :
                         /\ new.content = task.fact_text
                         /\ new.fact_type = task.fact_type
                         /\ memory_facts' = memory_facts \cup {new}
                   /\ IF rest = <<>> THEN after.pc = "st_count"
                      ELSE /\ after.pc = "ef_embed"
                           /\ after.fact_text = strip(rest[1].fact)
                           /\ C12_WithText(after.items) = rest
           /\ (task.pc \in ExtractPcs \ {"ef_delete"} /\ after /= task)
                => memory_facts \subseteq memory_facts'
      ]_vars

\* f, then h at distance 0.15 of it with the threshold at 0.15: both are stored
C12_Witness ==
    /\ config.duplicate_distance_threshold = 15
    /\ tasks[1].pc = "st_count" /\ tasks[1].errors = {}
    /\ tasks[2].pc = "st_count" /\ tasks[2].errors = {}
    /\ {r.content : r \in memory_facts} = {<<"f">>, <<"h">>}
    /\ Cardinality(memory_facts) = 2

\* C13: the long-term check of a process_exchange call, run with n unincorporated
\* summaries: below long_term_threshold nothing happens; otherwise, with
\* long_term_keep < n, the candidates are the oldest n - keep unincorporated
\* summaries, the base memory is overwritten with the distiller's answer, and
\* after the mark exactly the keep most recent of the n are unincorporated.
C13_LongTermCascade ==
    [][\A t \in TaskIds :
        LET task == tasks[t]
            after == tasks'[t]
            unincorporated == get_unincorporated_summaries(memory_summaries)
            n == Len(unincorporated)
            keep == config.long_term_keep
            returned == after /= task /\ "lt" \notin after.errors
            held == Len(task.summaries)
        IN /\ (task.pc = "lt_count" /\ returned /\ n < config.long_term_threshold)
                => after.pc = "done" /\ UNCHANGED store_vars
           /\ (task.pc = "lt_count" /\ returned /\ n >= config.long_term_threshold)
                => after.pc = "lt_get"
           /\ (task.pc = "lt_get" /\ returned /\ keep < n)
                => /\ after.pc = "lt_base"
                   /\ after.summaries = unincorporated
                   /\ after.to_incorporate = SubSeq(unincorporated, 1, n - keep)
           /\ (task.pc = "lt_chat" /\ returned)
                => /\ after.pc = "lt_set"
                   /\ \E answer \in SeqOutputs.distill : after.new_base = strip(answer)
           /\ (task.pc = "lt_set" /\ returned /\ keep < held)
                => /\ get_base_memory(memory_base') = task.new_base
                   /\ Cardinality(memory_base') = 1
                   /\ memory_summaries' = memory_summaries
           /\ (task.pc = "lt_mark" /\ returned /\ keep < held)
                => /\ get_unincorporated_summaries(memory_summaries')
                        = SubSeq(task.summaries, held - keep + 1, held)
                   /\ count_unincorporated_summaries(memory_summaries') = keep
                   /\ \A i \in 1 .. held - keep :
                         \E j \in DOMAIN memory_summaries' :
                            /\ memory_summaries'[j].id = task.summaries[i].id
                            /\ memory_summaries'[j].incorporated
                   /\ memory_base' = memory_base
           /\ (task.pc \in LongPcs /\ after /= task)
                => /\ conversation_log' = conversation_log
                   /\ Len(memory_summaries') = Len(memory_summaries)
           /\ (task.pc \in LongPcs \ {"lt_set"} /\ after /= task)
                => memory_base' = memory_base]_vars

\* two summaries were waiting with threshold 2 and keep 1: the older one is
\* incorporated, the base memory is the distiller's answer
C13_Witness ==
    \E t \in TaskIds :
        /\ tasks[t].pc = "done"
        /\ "lt" \notin tasks[t].errors
        /\ config.long_term_threshold = 2
        /\ config.long_term_keep = 1
        /\ Len(memory_summaries) = 2
        /\ memory_summaries[1].incorporated
        /\ ~memory_summaries[2].incorporated
        /\ get_base_memory(memory_base) = <<"C">>

\* C14 (as claimed): when a cascade marks its watermark, every message appended
\* after it read its candidates is unsummarized after the mark, and every summary
\* inserted after it read its candidates is unincorporated after the mark.
C14_RowsAboveWatermark ==
    [][\A t \in TaskIds :
        LET task == tasks[t]
            marked == tasks'[t] /= task /\ tasks'[t].errors = task.errors
        IN /\ (task.pc = "st_mark" /\ marked)
                => \A i \in DOMAIN conversation_log' :
                      conversation_log'[i].id > task.msgs[Len(task.msgs)].id
                          => ~conversation_log'[i].summarized
           /\ (task.pc = "lt_mark" /\ marked)
                => \A i \in DOMAIN memory_summaries' :
                      memory_summaries'[i].id > task.summaries[Len(task.summaries)].id
                          => ~memory_summaries'[i].incorporated]_vars

\* the mark itself leaves the rows above its watermark as they are
C14_MarkLeavesRowsAbove ==
    [][\A t \in TaskIds :
        LET task == tasks[t]
            marked == tasks'[t] /= task /\ tasks'[t].errors = task.errors
        IN /\ (task.pc = "st_mark" /\ marked)
                => \A i \in DOMAIN conversation_log :
                      conversation_log[i].id
                            > task.to_summarize[Len(task.to_summarize)].id
                          => conversation_log'[i] = conversation_log[i]
           /\ (task.pc = "lt_mark" /\ marked)
                => \A i \in DOMAIN memory_summaries :
                      memory_summaries[i].id
                            > task.to_incorporate[Len(task.to_incorporate)].id
                          => memory_summaries'[i] = memory_summaries[i]]_vars

\* C15 (as claimed): a call stopped with its candidates selected and
\* mark_summarized not done; the short-term check of the next call finds the
\* trigger met and selects candidates that start at the same first id, include
\* every candidate of the stopped call, and include no summarized message.
C15_RestartReselects ==
    [][\A t \in TaskIds \ {1} :
        LET stopped == tasks[t - 1]
            task == tasks[t]
            after == tasks'[t]
            returned == after /= task /\ after.pc /= "stopped" /\ "st" \notin after.errors
            ids(rows) == {rows[i].id : i \in DOMAIN rows}
            marked == {conversation_log[i].id : i \in
                          {j \in DOMAIN conversation_log :
                              conversation_log[j].summarized}}
        IN (stopped.pc = "stopped" /\ stopped.to_summarize /= <<>> /\ returned)
            => /\ task.pc = "st_count" => after.pc = "st_get"
               /\ task.pc = "st_get"
                    => /\ after.pc = "st_chat"
                       /\ after.to_summarize[1].id = stopped.to_summarize[1].id
                       /\ ids(stopped.to_summarize) \subseteq ids(after.to_summarize)
                       /\ ids(after.to_summarize) \cap marked = {}]_vars

\* with short_term_keep < short_term_threshold the next check does reselect
C15_RestartReselectsIntended ==
    [][\A t \in TaskIds \ {1} :
        LET stopped == tasks[t - 1]
            task == tasks[t]
            after == tasks'[t]
            returned == after /= task /\ after.pc /= "stopped" /\ "st" \notin after.errors
            ids(rows) == {rows[i].id : i \in DOMAIN rows}
            marked == {conversation_log[i].id : i \in
                          {j \in DOMAIN conversation_log :
                              conversation_log[j].summarized}}
        IN (/\ config.short_term_keep < config.short_term_threshold
            /\ stopped.pc = "stopped" /\ stopped.to_summarize /= <<>> /\ returned)
            => /\ task.pc = "st_count" => after.pc = "st_get"
               /\ task.pc = "st_get"
                    => /\ after.pc = "st_chat"
                       /\ after.to_summarize[1].id = stopped.to_summarize[1].id
                       /\ ids(stopped.to_summarize) \subseteq ids(after.to_summarize)
                       /\ ids(after.to_summarize) \cap marked = {}]_vars

\* C16: the store starts with one base-memory row, holding the empty text; in
\* every state there is exactly one row, with id 1; and the row changes only
\* when a long-term cascade calls set_base_memory, which leaves that one row
\* holding the new text.
C16_OneBaseRow ==
    /\ get_base_memory(memory_base) = EmptyText
    /\ [](Cardinality(memory_base) = 1 /\ \A r \in memory_base : r.id = 1)
    /\ [][memory_base' /= memory_base
            => \E t \in TaskIds :
                  /\ tasks[t].pc = "lt_set"
                  /\ tasks'[t].pc = "lt_mark"
                  /\ memory_base' = {[id |-> 1, content |-> tasks[t].new_base]}]_vars

C16_Witness ==
    /\ \E t \in TaskIds : tasks[t].pc = "lt_mark" /\ tasks[t].new_base = <<"B">>
    /\ memory_base = {[id |-> 1, content |-> <<"B">>]}

\* C17 (as claimed): every append_message returns an id greater than the id of
\* every message appended before it.
C17_ReturnedIdsIncrease ==
    [][Len(conversation_log') > Len(conversation_log)
        => \A i \in DOMAIN conversation_log :
              call'.arg > conversation_log[i].id]_vars

\* the id the store assigns to the appended row is greater than every id before
C17_AssignedIdsIncrease ==
    [][Len(conversation_log') > Len(conversation_log)
        => /\ Len(conversation_log') = Len(conversation_log) + 1
           /\ \A i \in DOMAIN conversation_log :
                 /\ conversation_log'[i].id = conversation_log[i].id
                 /\ conversation_log'[Len(conversation_log')].id
                        > conversation_log[i].id]_vars

\* C18: a set_base_memory(X) call leaves the store in a state where
\* get_base_memory() returns exactly X, whatever the content was before the call.
C18_BaseRoundTrip ==
    [][call'.op = "set_base_memory"
        => \E X \in BaseTexts :
              /\ memory_base' = set_base_memory(memory_base, X)
              /\ get_base_memory(memory_base') = X]_vars

\* the same for every text, stored over every content the store can hold
C18_AnyTextRoundTrip ==
    \A X \in StoredBaseTexts \cup DistillOutputs :
        get_base_memory(set_base_memory(memory_base, X)) = X

\* the empty text was stored over a non-empty one and is what is read back
C18_Witness ==
    /\ call.op = "set_base_memory"
    /\ call.prev_op = "set_base_memory"
    /\ get_base_memory(memory_base) = EmptyText
    /\ call.prev_arg = 0

\* C19 (as claimed): a chat request fails only when the append of the user's own
\* message fails; a failure while appending the assistant message does not fail it.
C19_OnlyUserAppendFails ==
    [][request'.status = "error" /\ request.status /= "error"
        => request.pc = "append_user"]_vars

\* a request fails only in one of the handler's two store calls: a failed
\* retrieval, a failed reply chat and a failing background call leave it running
C19_OtherFailuresContained ==
    /\ [][request'.status = "error" /\ request.status /= "error"
            => request.pc \in {"append_user", "append_assistant"}]_vars
    /\ [][request.pc = "build_messages" /\ request'.pc /= request.pc
            => request'.pc = "append_assistant" /\ request'.status = "none"]_vars
    /\ [][(\E t \in TaskIds : tasks'[t] /= tasks[t]) /\ request' /= request
            => request'.status = "ok"]_vars

\* C20: in every chat turn, of either endpoint, retrieve_context starts with the
\* user message of the turn as the last row of the log; the reply is generated
\* only when retrieval has returned or its failure was caught; and the turn's
\* process_exchange starts only with the turn's user message and reply as the
\* last two rows of the log.
C20_TurnOrdering ==
    /\ [](retr.pc \in {"rc_base", "rc_embed", "rc_search"}
            => /\ request.pc \in {"build_messages", "audio_build_messages"}
               /\ conversation_log /= <<>>
               /\ conversation_log[Len(conversation_log)].role = "user"
               /\ conversation_log[Len(conversation_log)].content = request.text
               /\ retr.query = request.text)
    /\ [][request.pc \in {"build_messages", "audio_build_messages"}
             /\ request'.pc /= request.pc
            => /\ retr.pc \in {"returned", "raised"}
               /\ request'.pc \in {"append_assistant", "audio_append_assistant"}]_vars
    /\ [][\A t \in TaskIds :
            tasks[t].pc = "idle" /\ tasks'[t].pc /= "idle"
            => LET n == Len(conversation_log')
               IN  /\ t = request.turn
                   /\ tasks'[t].pc = "ef_chat"
                   /\ n >= 2 * Cardinality({o \in TaskIds : tasks'[o].pc /= "idle"})
                   /\ conversation_log'[n - 1].role = "user"
                   /\ conversation_log'[n - 1].content = request.text
                   /\ conversation_log'[n].role = "assistant"
                   /\ conversation_log'[n].content = request.response]_vars

\* a voice turn answered with [REACT] is over: both its messages are in the log,
\* its retrieval has ended and its process_exchange has started
C20_Witness ==
    /\ request.pc = "idle"
    /\ request.status = "ok"
    /\ request.turn = 2
    /\ tasks[1].pc = "idle"
    /\ tasks[2].pc = "ef_chat"
    /\ Len(conversation_log) >= 3
    /\ conversation_log[Len(conversation_log)].content = <<"[REACT]", "nod">>
    /\ retr.pc = "idle"

\* C21 (as claimed): when a handler returns from a turn in which the user message
\* and the reply were both appended to the log, the turn's process_exchange has
\* been started.
C21_OncePerCompletedTurn ==
    [][(/\ request'.pc = "idle"
        /\ \/ request.pc = "audio_synthesize"
           \/ /\ request.pc \in {"append_assistant", "audio_append_assistant"}
              /\ conversation_log' /= conversation_log)
        => tasks'[request.turn].pc /= "idle"]_vars

\* C21 (amended): process_exchange is started for a turn exactly when the turn's
\* handler returns its response and, on the audio endpoint, the reply's action is
\* not IGNORE; it is started by no other step, for no other turn, and a call
\* once started is never started again.
C21_OncePerAnsweredTurn ==
    /\ [][request.pc /= "idle" /\ request'.pc = "idle"
            => ((tasks[request.turn].pc = "idle" /\ tasks'[request.turn].pc = "ef_chat")
                <=> /\ request'.status = "ok"
                    /\ \/ request.pc = "append_assistant"
                       \/ parse_llm_response(request.response).action /= "ignore")]_vars
    /\ [][\A t \in TaskIds :
            tasks[t].pc = "idle" /\ tasks'[t].pc /= "idle"
            => /\ t = request.turn
               /\ request.pc /= "idle"
               /\ request'.pc = "idle"]_vars
    /\ [][\A t \in TaskIds :
            tasks[t].pc /= "idle"
            => /\ tasks'[t].pc /= "idle"
               /\ tasks'[t].pc = "ef_chat" => tasks[t].pc = "ef_chat"]_vars

\* the first turn was a voice turn answered with [IGNORE], with both messages in
\* the log and no call started; the second turn was answered and its call runs
C21_Witness ==
    /\ request.pc = "idle"
    /\ request.turn = 2
    /\ Len(conversation_log) = 4
    /\ conversation_log[2].content = <<"[IGNORE]", " ", "noise">>
    /\ tasks[1].pc = "idle"
    /\ tasks[2].pc /= "idle"

\* the outputs of ParseOutputs that json.loads rejects with JSONDecodeError or
\* decodes to something that is no array, with or without a fence around them
C22_Malformed == {<<>>, <<"no facts">>, <<"{}">>, <<"[f]", " ", "[f]">>, FencedObject}

C23_BothCascadesChecked ==
    [][\A t \in TaskIds :
        /\ (tasks[t].pc = "idle" /\ tasks'[t].pc /= "idle") => tasks'[t].pc = "ef_chat"
        /\ (tasks[t].pc \in ExtractPcs /\ tasks'[t].pc \notin ExtractPcs)
              => tasks'[t].pc = "st_count"
        /\ (tasks[t].pc \in ShortPcs /\ tasks'[t].pc \notin ShortPcs)
              => tasks'[t].pc = "lt_count"
        /\ (tasks[t].pc \in LongPcs /\ tasks'[t].pc \notin LongPcs)
              => tasks'[t].pc = "done"
        /\ ("ef" \in tasks'[t].errors \ tasks[t].errors)
              => tasks[t].pc \in ExtractPcs /\ tasks'[t].pc = "st_count"
        /\ ("st" \in tasks'[t].errors \ tasks[t].errors)
              => tasks[t].pc \in ShortPcs /\ tasks'[t].pc = "lt_count"
        /\ (tasks[t].pc \in RaisingPcs \cap ExtractPcs /\ tasks'[t].pc = "st_count")
              => \/ "ef" \in tasks'[t].errors
                 \/ tasks[t].pc = "ef_insert"
        /\ (tasks[t].pc \in ShortPcs /\ tasks'[t].pc = "lt_count")
              => \/ "st" \in tasks'[t].errors
                 \/ tasks[t].pc \in {"st_count", "st_get", "st_mark"}]_vars

\* fact extraction and the short-term cascade both failed in a call, and the
\* call went on to run and finish the long-term cascade
C23_Witness ==
    \E t \in TaskIds :
        /\ tasks[t].pc = "done"
        /\ tasks[t].errors = {"ef", "st"}
        /\ get_base_memory(memory_base) /= EmptyText
        /\ \E i \in DOMAIN memory_summaries : memory_summaries[i].incorporated

\* C24: a step of the long-term cascade's fact probe (llm.embed, search_facts),
\* failing or not, changes no table and records no error; when the probe fails the
\* call is at the distilling chat with the locals it would have after a probe
\* that found no fact; and after an empty or failed probe the cascade, unless a
\* later call of it fails, distills, overwrites the base memory with the
\* distilled text and marks every candidate incorporated.
C24_ProbeBestEffort ==
    /\ [][\A t \in TaskIds :
            (tasks[t].pc \in ProbePcs /\ tasks'[t] /= tasks[t])
            => LET empty_probe == [tasks[t] EXCEPT !.pc = "lt_chat", !.vec = 0,
                                                   !.recent_facts_text = <<>>]
               IN  /\ store_vars' = store_vars
                   /\ tasks'[t].errors = tasks[t].errors
                   /\ \/ tasks[t].pc = "lt_embed" /\ tasks'[t].pc = "lt_search"
                      \/ tasks'[t] = empty_probe
                      \/ /\ tasks[t].pc = "lt_search"
                         /\ memory_facts /= {}
                         /\ tasks'[t] = [empty_probe EXCEPT !.recent_facts_text =
                                                               tasks'[t].recent_facts_text]
                         /\ tasks'[t].recent_facts_text /= <<>>]_vars
    /\ [][\A t \in TaskIds :
            (tasks[t].recent_facts_text = <<>> /\ tasks'[t] /= tasks[t]
                /\ "lt" \notin tasks'[t].errors \ tasks[t].errors)
            => /\ tasks[t].pc = "lt_chat"
                     => tasks'[t].pc = "lt_set" /\ tasks'[t].recent_facts_text = <<>>
               /\ tasks[t].pc = "lt_set"
                     => /\ tasks'[t].pc = "lt_mark"
                        /\ tasks'[t].recent_facts_text = <<>>
                        /\ get_base_memory(memory_base') = tasks[t].new_base
               /\ tasks[t].pc = "lt_mark"
                     => /\ tasks'[t].pc = "done"
                        /\ \A i \in DOMAIN tasks[t].to_incorporate :
                              \E j \in DOMAIN memory_summaries' :
                                 /\ memory_summaries'[j].id = tasks[t].to_incorporate[i].id
                                 /\ memory_summaries'[j].incorporated]_vars

\* the probe failed with a fact in the store, and the cascade has distilled and
\* overwritten the base memory and is about to mark its candidates
C24_Witness ==
    \E t \in TaskIds :
        /\ tasks[t].pc = "lt_mark"
        /\ memory_facts /= {}
        /\ tasks[t].recent_facts_text = <<>>
        /\ tasks[t].new_base /= <<>>
        /\ get_base_memory(memory_base) = tasks[t].new_base

\* C25: initialize() run at a restart leaves every row of the log, of the facts
\* and of the summaries, every flag, and the base memory as the stopped process
\* left them.
C25_InitializeIdempotent ==
    [][call.op /= "initialize" /\ call'.op = "initialize"
        => store_vars' = store_vars]_vars

\* initialize() has run on a store holding a summarized message, a fact, an
\* incorporated summary and a non-empty base memory
C25_Witness ==
    /\ call.op = "initialize"
    /\ \E i \in DOMAIN conversation_log : conversation_log[i].summarized
    /\ memory_facts /= {}
    /\ \E i \in DOMAIN memory_summaries : memory_summaries[i].incorporated
    /\ get_base_memory(memory_base) = <<"B">>

\* C26: no step of retrieve_context, up to its return or its raise,
\* changes the message log, the facts, the summaries, a flag or the base memory,
\* whether llm.embed and search_facts answer or fail.
C26_RetrieveReadOnly ==
    [][(retr' /= retr /\ retr.pc \in {"rc_base", "rc_embed", "rc_search"})
        => store_vars' = store_vars]_vars

\* retrieve_context has returned a fact it found, over a store that also holds a
\* fact too far from the query and a base memory
C26_Witness ==
    /\ retr.pc = "returned"
    /\ ~retr.warned
    /\ retr.relevant_facts /= <<>>
    /\ Len(retr.relevant_facts) < Cardinality(memory_facts)
    /\ retr.base_memory = <<"B">>
    /\ get_base_memory(memory_base) = <<"B">>

\* the transcriptions of TranscriptionResults that are empty or that the filter
\* rejects: audio under half a second, no-speech probability over 0.7 on average,
\* one word, a blocklisted phrase, or short audio with a doubtful single segment
C27_Rejected ==
    {r \in TranscriptionResults :
        \/ r.text \in {<<>>, <<"um">>, <<"um", " ", "!">>, <<"Thank", " ", "you", ".">>}
        \/ r.audio_duration = 30
        \/ r.avg_no_speech_prob = 80
        \/ r.audio_duration = 80 /\ r.no_speech_prob = 60}

\* C27: the step chat_audio takes on an empty or rejected transcription leaves
\* the conversation history, the log and the other tables, the retrieval and
\* every process_exchange call as they are, and the handler is back at rest
\* without a turn begun (no chat call is made).
C27_FilteredAudioChangesNothing ==
    [][\A result \in C27_Rejected :
        ReceiveAudio(result)
            => /\ UNCHANGED <<store_vars, messages, tasks, retr>>
               /\ request'.pc = "idle"
               /\ request'.turn = request.turn
               /\ request'.status = "ignore"]_vars

\* after a completed turn, a rejected transcription was answered with "ignore":
\* the history and the log hold the two messages of the turn, no more
C27_Witness ==
    /\ request.pc = "idle"
    /\ request.status = "ignore"
    /\ request.turn = 1
    /\ Len(messages) = 2
    /\ Len(conversation_log) = 2
    /\ tasks[2].pc = "idle"

\* C28: in every reachable state, a message that is summarized has only
\* summarized messages below its id, and a summary that is incorporated has only
\* incorporated summaries below its id.
C28_FlagsFormPrefix ==
    /\ \A i, j \in DOMAIN conversation_log :
          (conversation_log[i].summarized /\ conversation_log[j].id < conversation_log[i].id)
              => conversation_log[j].summarized
    /\ \A i, j \in DOMAIN memory_summaries :
          (memory_summaries[i].incorporated /\ memory_summaries[j].id < memory_summaries[i].id)
              => memory_summaries[j].incorporated

\* marks were made below the newest rows: both logs have a flagged first row and
\* an unflagged last row
C28_Witness ==
    /\ Len(conversation_log) >= 3
    /\ conversation_log[2].summarized
    /\ ~conversation_log[Len(conversation_log)].summarized
    /\ Len(memory_summaries) >= 2
    /\ memory_summaries[1].incorporated
    /\ ~memory_summaries[Len(memory_summaries)].incorporated
    /\ call.op \in {"mark_summarized", "mark_incorporated"}

SummaryRange(s) == s.source_from_id .. s.source_to_id

SummarizedIds(log) == {log[i].id : i \in {k \in DOMAIN log : log[k].summarized}}

\* C29 (as claimed): no message is condensed twice: in every reachable state
\* the message-id ranges [source_from_id, source_to_id] of any two distinct
\* Summaries are disjoint, also after a cascade that failed part-way.
C29_RangesDisjoint ==
    \A i, j \in DOMAIN memory_summaries :
        i /= j => SummaryRange(memory_summaries[i])
                      \cap SummaryRange(memory_summaries[j]) = {}

\* C29 (amended): a message marked summarized is never condensed again. A
\* cascade selects only messages that are unsummarized when it selects, so its
\* candidates are disjoint from the range of every Summary whose messages
\* are all marked, and the Summary it inserts covers exactly the first to the
\* last of its candidates. Two ranges overlap only when the later cascade
\* selected before the earlier range was marked.
C29_MarkedNeverCondensedAgain ==
    /\ [][\A t \in TaskIds :
            (tasks[t].pc = "st_get" /\ tasks'[t].pc = "st_chat")
            => LET c == tasks'[t].to_summarize
                   sel == {c[k].id : k \in DOMAIN c}
               IN /\ sel /= {}
                  /\ sel \cap SummarizedIds(conversation_log) = {}
                  /\ \A i \in DOMAIN memory_summaries :
                        SummaryRange(memory_summaries[i])
                            \subseteq SummarizedIds(conversation_log)
                        => sel \cap SummaryRange(memory_summaries[i]) = {}]_vars
    /\ [][\A t \in TaskIds :
            (tasks[t].pc = "st_insert" /\ tasks'[t].pc = "st_mark")
            => LET c == tasks[t].to_summarize
                   row == memory_summaries'[Len(memory_summaries')]
               IN /\ Len(memory_summaries') = Len(memory_summaries) + 1
                  /\ SummaryRange(row) = c[1].id .. c[Len(c)].id
                  /\ \A k \in DOMAIN c : c[k].id \in SummaryRange(row)]_vars

\* Two Summaries over the same messages: the first cascade inserted its
\* Summary and failed before the mark, the next cascade condensed the range
\* again and marked it.
C29_Witness ==
    \E i, j \in DOMAIN memory_summaries :
        /\ i < j
        /\ SummaryRange(memory_summaries[i]) \cap SummaryRange(memory_summaries[j]) /= {}
        /\ SummaryRange(memory_summaries[j]) \subseteq SummarizedIds(conversation_log)

\* C30: when a process_exchange call returns with no stage having failed, no
\* message having been appended while it ran (calls of SpecSeq start and
\* finish between appends), and short_term_keep < short_term_threshold, the
\* number of unsummarized messages is below short_term_threshold, however
\* many messages had accumulated before the call.
C30_CallLeavesCountBelowThreshold ==
    [][\A t \in TaskIds :
          (/\ tasks[t].pc \in ActivePcs
           /\ tasks'[t].pc = "done"
           /\ tasks'[t].errors = {}
           /\ config.short_term_keep < config.short_term_threshold)
          => count_unsummarized(conversation_log') < config.short_term_threshold]_vars

\* A call returned cleanly after more messages than the threshold had
\* accumulated: one Summary covers more than short_term_threshold messages
\* and the unsummarized count is back under the threshold.
C30_Witness ==
    \E t \in TaskIds, i \in DOMAIN memory_summaries :
        /\ tasks[t].pc = "done"
        /\ tasks[t].errors = {}
        /\ config.short_term_keep < config.short_term_threshold
        /\ Cardinality(SummaryRange(memory_summaries[i])) > config.short_term_threshold
        /\ count_unsummarized(conversation_log) < config.short_term_threshold

\* C31: within one process_exchange call the stages run in the order
\* extraction, short-term check, long-term check: a call leaves a stage only
\* for the trigger check of the next one. The Summary the short-term cascade
\* inserts raises the unincorporated count by one, nothing changes the
\* summaries between that insert and the long-term trigger check of the same
\* call, and that check enters the long-term cascade exactly when the count
\* it reads has reached long_term_threshold (unless the count itself raises).
C31_SameCallCascade ==
    /\ [][\A t \in TaskIds :
            (tasks[t].pc \in ActivePcs /\ tasks'[t].pc /= tasks[t].pc)
            => /\ tasks[t].pc \in ExtractPcs
                  => tasks'[t].pc \in ExtractPcs \cup {"st_count"}
               /\ tasks[t].pc \in ShortPcs
                  => tasks'[t].pc \in ShortPcs \cup {"lt_count"}
               /\ tasks[t].pc \in LongPcs
                  => tasks'[t].pc \in LongPcs \cup {"done"}]_vars
    /\ [][\A t \in TaskIds :
            (tasks[t].pc = "st_insert" /\ tasks'[t].pc = "st_mark")
            => count_unincorporated_summaries(memory_summaries')
                   = count_unincorporated_summaries(memory_summaries) + 1]_vars
    /\ [][\A t \in TaskIds :
            (tasks[t].pc = "st_mark" /\ tasks'[t].pc /= "st_mark")
            => /\ tasks'[t].pc = "lt_count"
               /\ memory_summaries' = memory_summaries]_vars
    /\ [][\A t \in TaskIds :
            (tasks[t].pc = "lt_count" /\ tasks'[t] /= tasks[t])
            => /\ memory_summaries' = memory_summaries
               /\ \/ "lt" \in tasks'[t].errors \ tasks[t].errors
                  \/ tasks'[t].pc =
                        IF count_unincorporated_summaries(memory_summaries)
                               >= config.long_term_threshold
                        THEN "lt_get" ELSE "done"]_vars

\* The first call of a run is inside the long-term cascade and the only
\* Summary of the store, which that call inserted, is among its candidates;
\* the count it brought to long_term_threshold was exactly the threshold.
C31_Witness ==
    /\ tasks[1].pc = "lt_base"
    /\ \A t \in TaskIds \ {1} : tasks[t].pc = "idle"
    /\ Len(memory_summaries) = config.long_term_threshold
    /\ count_unincorporated_summaries(memory_summaries) = config.long_term_threshold
    /\ Len(tasks[1].to_incorporate) >= 1

\* the (role, content) pairs of the last min(max_history, N) messages of the log
LastOfLog(log) ==
    LET N == Len(log)
        k == IF max_history < N THEN max_history ELSE N
    IN [i \in 1..k |-> [role |-> log[N - k + i].role,
                        content |-> log[N - k + i].content]]

\* C32 (as claimed): after startup reload and after every completed chat turn
\* the rolling history equals, in order, the (role, content) pairs of the
\* last min(max_history, N) messages of the durable log, and it never holds
\* more than max_history entries.
C32_HistoryMirrorsLog ==
    /\ Len(messages) <= max_history
    /\ (request.pc = "idle" /\ request.status \in {"none", "started", "ok"})
       => messages = LastOfLog(conversation_log)

\* What holds: the history mirrors the log right after startup, and it never
\* holds more than max_history entries.
C32_ReloadMirrorsLog ==
    /\ Len(messages) <= max_history
    /\ (request.pc = "idle" /\ request.status \in {"none", "started"})
       => messages = LastOfLog(conversation_log)

\* C33: when llm.embed or the dedup search raises for a fact of an exchange,
\* the step leaves the facts table as it is (the facts handled before it stay
\* stored) and takes the call to the short-term trigger check; from there the
\* call stores no further fact, and it reaches its end only through the
\* long-term trigger check.
C33_EmbedFailureStopsExtraction ==
    /\ [][\A t \in TaskIds :
            (/\ tasks[t].pc \in {"ef_embed", "ef_search"}
             /\ "ef" \in tasks'[t].errors \ tasks[t].errors)
            => /\ memory_facts' = memory_facts
               /\ tasks'[t].pc = "st_count"]_vars
    /\ [][\A t \in TaskIds :
            (tasks[t].pc \in ShortPcs \cup LongPcs /\ tasks'[t] /= tasks[t])
            => /\ memory_facts' = memory_facts
               /\ tasks'[t].pc \notin ExtractPcs
               /\ tasks[t].pc \in ShortPcs
                  => tasks'[t].pc \in ShortPcs \cup {"lt_count"}
               /\ tasks'[t].pc = "done" => tasks[t].pc \in LongPcs]_vars

\* The first call of a run extracted two facts, stored the first, failed on
\* the second, and has gone on to its long-term check: the first fact is the
\* only one stored.
C33_Witness ==
    /\ tasks[1].pc \in LongPcs
    /\ "ef" \in tasks[1].errors
    /\ \A t \in TaskIds \ {1} : tasks[t].pc = "idle"
    /\ \E r \in memory_facts : memory_facts = {r} /\ r.content = <<"g">>

\* C34 (as claimed): a process_exchange call never reduces the number of
\* stored facts, also when a store step fails: a step of a call removes at most
\* one fact, and the call that removed a near-duplicate goes on to insert the
\* fact that replaces it.
C34_CallNeverReducesFacts ==
    /\ [][Cardinality(memory_facts') >= Cardinality(memory_facts) - 1]_vars
    /\ [][\A t \in TaskIds :
            (/\ tasks[t].pc = "ef_insert"
             /\ is_duplicate(tasks[t].existing, config.duplicate_distance_threshold)
             /\ tasks'[t] /= tasks[t])
            => Cardinality(memory_facts') = Cardinality(memory_facts) + 1]_vars

\* C34 (amended): the only step of a call that lowers the number of stored
\* facts is delete_fact on the near-duplicate the dedup search found, and it
\* lowers it by one; insert_fact either adds exactly one fact or raises, and
\* when it raises (or the process stops before it) the facts stay as the
\* delete left them and extraction ends: a call ends with fewer facts only
\* when insert_fact did not complete after delete_fact.
C34_DeleteThenInsert ==
    /\ [][Cardinality(memory_facts') < Cardinality(memory_facts)
          => \E t \in TaskIds :
                /\ tasks[t].pc = "ef_delete"
                /\ tasks'[t].pc = "ef_insert"
                /\ is_duplicate(tasks[t].existing, config.duplicate_distance_threshold)
                /\ memory_facts' = memory_facts \ {r \in memory_facts :
                                                     r.id = tasks[t].existing[1].id}
                /\ Cardinality(memory_facts') = Cardinality(memory_facts) - 1]_vars
    /\ [][\A t \in TaskIds :
            (tasks[t].pc = "ef_insert" /\ tasks'[t] /= tasks[t])
            => \/ /\ Cardinality(memory_facts') = Cardinality(memory_facts) + 1
                  /\ tasks'[t].errors = tasks[t].errors
               \/ /\ memory_facts' = memory_facts
                  /\ \/ "ef" \in tasks'[t].errors /\ tasks'[t].pc = "st_count"
                     \/ tasks'[t].pc = "stopped"]_vars

\* The first call stored two facts; the second call deleted the first of them
\* as a near-duplicate and failed before it had inserted the replacement: the
\* store is left with the second fact alone.
C34_Witness ==
    /\ tasks[1].errors = {}
    /\ tasks[2].pc \in ShortPcs \cup LongPcs \cup {"done"}
    /\ "ef" \in tasks[2].errors
    /\ \E r \in memory_facts : memory_facts = {r} /\ r.id = 2

\* C6 (as claimed): with keep >= threshold, the steps of a cascade change no table.
C6_MisuseIsNoOp ==
    [][\A t \in TaskIds :
        /\ (/\ tasks[t].pc \in ShortPcs
            /\ config.short_term_keep >= config.short_term_threshold)
           => UNCHANGED store_vars
        /\ (/\ tasks[t].pc \in LongPcs
            /\ config.long_term_keep >= config.long_term_threshold)
           => UNCHANGED store_vars]_vars

\* C7: process_exchange returns to its caller whatever call fails inside it.
C7_NeverPropagates == \A t \in TaskIds : tasks[t].pc /= "raised"

C7_Witness ==
    \E t \in TaskIds : tasks[t].pc = "done" /\ tasks[t].errors = {"ef", "st", "lt"}

\* C8: when llm.embed or search_facts fails, retrieve_context still returns a
\* MemoryContext: no facts, the base memory as stored, and the formatted text
\* made of the base memory alone.
C8_RetrievalDegrades ==
    [][/\ (retr.pc \in {"rc_embed", "rc_search"} /\ retr' /= retr)
          => retr'.pc \in {"rc_search", "returned"}
       /\ (retr.pc \in {"rc_embed", "rc_search"} /\ retr'.pc = "returned" /\ retr'.warned)
          => /\ retr'.relevant_facts = <<>>
             /\ retr'.base_memory = get_base_memory(memory_base)
             /\ retr'.formatted =
                   IF get_base_memory(memory_base) = <<>> THEN <<>>
                   ELSE <<"[Long-term memory]", "\n">> \o get_base_memory(memory_base)
      ]_vars

C8_Witness ==
    /\ retr.pc = "returned"
    /\ retr.warned
    /\ memory_facts /= {}
    /\ retr.base_memory = <<"B">>
    /\ retr.formatted = <<"[Long-term memory]", "\n", "B">>

HasBlock(text, header) == \E i \in DOMAIN text : text[i] = header

\* C9: the formatted context has the long-term block iff the base memory is not
\* empty, the relevant-memories block iff a fact survived, and is empty iff both are.
C9_FormattedBlocks ==
    retr.pc = "returned" =>
        /\ HasBlock(retr.formatted, "[Long-term memory]") <=> retr.base_memory /= <<>>
        /\ HasBlock(retr.formatted, "[Relevant memories]") <=> retr.relevant_facts /= <<>>
        /\ retr.formatted = <<>>
              <=> (retr.base_memory = <<>> /\ retr.relevant_facts = <<>>)

C9_Witness ==
    /\ retr.pc = "returned"
    /\ retr.base_memory = <<"B">>
    /\ Len(retr.relevant_facts) = 2
    /\ HasBlock(retr.formatted, "[Long-term memory]")
    /\ HasBlock(retr.formatted, "[Relevant memories]")

\* C10: relevant_facts holds, in the order of the search results, the content of
\* exactly the results whose distance is <= 1 - retrieval_min_similarity.
C10_RelevantFacts ==
    [][(retr.pc = "rc_search" /\ retr'.pc = "returned" /\ ~retr'.warned) =>
        LET results == search_facts(memory_facts, retr.query_vec, config.retrieval_top_k)
            bound == 100 - config.retrieval_min_similarity
            kept == {i \in DOMAIN results : results[i].distance <= bound}
            facts == retr'.relevant_facts
        IN /\ Len(facts) = Cardinality(kept)
           /\ \E pick \in [DOMAIN facts -> kept] :
                 /\ \A i, j \in DOMAIN facts : i < j => pick[i] < pick[j]
                 /\ \A i \in DOMAIN facts : facts[i] = results[pick[i]].content
      ]_vars

C10_Witness ==
    /\ retr.pc = "returned"
    /\ ~retr.warned
    /\ retr.query = <<"q">>
    /\ config.retrieval_min_similarity = 30
    /\ Cardinality(memory_facts) = 3
    /\ retr.relevant_facts = <<<<"h">>, <<"f">>>>

====
